---- MODULE Spec2Model ----
(***************************************************************************)
(* MASL: the frame-stepped Scheduler (src/src/scheduler.py) and the chain  *)
(* compiler (src/src/compiler.py), as state machines.                      *)
(***************************************************************************)
EXTENDS Integers, Sequences, FiniteSets, TLC

VARIABLES
    queues,      \* Scheduler.queues: port -> sequence of Action | Barrier
    cursors,     \* Scheduler.cursors: port -> index into the head Action's frames
    order,       \* key order of the Scheduler.queues dict (insertion order)
    result,      \* the mapping returned by the last Scheduler.step call
    last_call,   \* history: name and port of the last Scheduler call
    hist,        \* history: per port, what the head Barrier has been shown so far
    tick,        \* history: per port, what the last step saw (head kind, snapshot entry) and popped
    twin,        \* a second Scheduler with equal contents, driven by the same calls
    chain,       \* compile_chain: the chain being compiled (a sequence of segments)
    seg_i,       \* compile_chain: number of segments the for loop has consumed
    output,      \* compile_chain: the local list `output`
    hold_active, \* compile_chain: the local flag `hold_active`
    cstate,      \* compile_chain: "idle", "running", "returned" or the exception raised
    match,       \* compile_match: the Match being compiled
    ctx_queues,  \* _CompilerContext.queues: port -> list of IR items
    blk_i,       \* compile_match: number of Static blocks executed
    stmt_i,      \* _exec_statements: number of statements of the block executed
    blk_vars,    \* compile_match: the local dict `block_vars` of the block
    mstate,      \* compile_match: "idle", "running", "returned" or the exception raised
    merge,       \* _merge_frames: the arguments and the result of the last call
    validation,  \* _validate_static_player_uniqueness: its argument, loop position, locals and outcome
    inc,         \* Parser.parse over files with #INCLUDE: the files, the parsers in progress,
                 \* _included, _stack, the files opened and the outcome
    prs,         \* Parser.parse over a token list: tokens, pos, the loop it is in, the Match
                 \* built so far and the outcome
    caller,      \* the list the caller handed to Scheduler.load and kept: the
                 \* scheduler's queue is a copy of it, holding the same Barrier objects
    wloop        \* the while loop of _exec_statements: the statement, the scope, ctx.queues,
                 \* the locals `iterations` and `output`, and the outcome

sched_vars == <<queues, cursors, order, result, last_call, hist, tick, twin>>
chain_vars == <<chain, seg_i, output, hold_active, cstate>>
match_vars == <<match, blk_i, stmt_i, blk_vars, mstate>>
compile_vars == <<match_vars, ctx_queues>>
vars == <<queues, cursors, order, result, last_call, hist, tick, twin,
          chain, seg_i, output, hold_active, cstate,
          match, ctx_queues, blk_i, stmt_i, blk_vars, mstate, merge, validation, inc, prs,
          caller, wloop>>

\* what the scheduler leaves alone, and what the compiler leaves alone
parser_vars == <<validation, inc, prs>>
not_sched == <<chain_vars, compile_vars, merge, parser_vars, wloop>>
not_compiler == <<sched_vars, merge, parser_vars, caller, wloop>>
not_merge == <<sched_vars, chain_vars, compile_vars, parser_vars, caller, wloop>>
not_parser == <<sched_vars, chain_vars, compile_vars, merge, caller, wloop>>
not_while == <<sched_vars, chain_vars, compile_vars, merge, parser_vars, caller>>

-----------------------------------------------------------------------------
(* Bounds *)

\* total number of items held in all queues of one scheduler
MaxItems == 2

Ports == {1, 2}

-----------------------------------------------------------------------------
(* IR types: compiler.py *)

InputFrame(buttons, main_stick, c_stick, l_trigger, r_trigger) ==
    [buttons |-> buttons, main_stick |-> main_stick, c_stick |-> c_stick,
     l_trigger |-> l_trigger, r_trigger |-> r_trigger]

NEUTRAL == InputFrame({}, <<0, 0>>, <<0, 0>>, 0, 0)

Action(frames) == [type |-> "Action", frames |-> frames]

\* a freshly constructed Barrier: _seen_exit defaults to False
Barrier(condition) == [type |-> "Barrier", condition |-> condition, seen_exit |-> FALSE]

FrameA == InputFrame({"A"}, <<0, 0>>, <<0, 0>>, 0, 0)
FrameB == InputFrame({"B"}, <<0, 0>>, <<0, 0>>, 0, 0)

-----------------------------------------------------------------------------
(* Inputs of the scheduler calls *)

\* the items a caller pushes or loads
Items ==
    { Action(<<>>), Action(<<FrameA>>), Action(<<FrameA, FrameB>>),
      Barrier("act"), Barrier("ground"), Barrier("apex") }

\* the queues a caller loads (those of tests/test_scheduler.py, and the queue
\* compiled from `P1 button(A) :: wait 3`)
LoadQueues ==
    { <<>>,
      << Action(<<FrameA, FrameB>>) >>,
      << Action(<<FrameA>>), Action(<<FrameA, FrameB>>) >>,
      << Action(<<>>), Action(<<FrameA>>) >>,
      << Barrier("ground"), Action(<<FrameA>>) >>,
      << Barrier("act"), Action(<<FrameA, FrameB>>) >>,
      << Barrier("apex"), Action(<<FrameA>>) >>,
      << Action(<<FrameA>>), Action(<<NEUTRAL, NEUTRAL, NEUTRAL>>) >>,
      << Action(<<FrameA>>), Barrier("act"), Action(<<FrameB>>) >>,
      << Barrier("act"), Barrier("ground"), Action(<<FrameA>>) >> }

\* the per-port player states of a snapshot (action.name, on_ground, speed_y_self)
Players ==
    { [action_name |-> "STANDING", on_ground |-> TRUE, speed_y_self |-> 0],
      [action_name |-> "JUMP", on_ground |-> FALSE, speed_y_self |-> 5],
      [action_name |-> "JUMP", on_ground |-> FALSE, speed_y_self |-> 0] }

NoPlayers == [p \in {} |-> 0]

\* gamestate None
None == [is_none |-> TRUE, players |-> NoPlayers]

GameStates ==
    { None } \cup
    { [is_none |-> FALSE, players |-> f] :
        f \in UNION { [D -> Players] : D \in SUBSET Ports } }

ACTIONABLE_STATES ==
    { "STANDING", "WAIT", "WALK_SLOW", "WALK_MIDDLE", "WALK_FAST",
      "DASH", "RUN", "RUN_BRAKE", "TURN", "TURN_RUN",
      "CROUCH_START", "CROUCHING", "CROUCH_END",
      "LANDING", "LANDING_SPECIAL" }

-----------------------------------------------------------------------------
(* Scheduler: scheduler.py *)

\* _check_condition
CheckCondition(condition, player) ==
    IF condition = "act" THEN player.action_name \in ACTIONABLE_STATES
    ELSE IF condition = "ground" THEN player.on_ground
    ELSE IF condition = "apex" THEN player.speed_y_self <= 0 /\ ~player.on_ground
    ELSE FALSE

\* Faulty variant of _evaluate_barrier: level-triggered, the first phase is skipped
EvaluateBarrier_LevelTriggered(barrier, port, gs) ==
    IF gs.is_none THEN [resolved |-> FALSE, barrier |-> barrier]
    ELSE IF port \notin DOMAIN gs.players THEN [resolved |-> FALSE, barrier |-> barrier]
    ELSE LET condition_met == CheckCondition(barrier.condition, gs.players[port])
         IN  IF condition_met
             THEN [resolved |-> TRUE, barrier |-> barrier]
             ELSE [resolved |-> FALSE, barrier |-> [barrier EXCEPT !.seen_exit = TRUE]]

\* Faulty variant of _evaluate_barrier: a missing snapshot or player counts as the
\* condition being false
EvaluateBarrier_MissingIsUnmet(barrier, port, gs) ==
    LET condition_met ==
            IF gs.is_none \/ port \notin DOMAIN gs.players THEN FALSE
            ELSE CheckCondition(barrier.condition, gs.players[port])
    IN  IF ~barrier.seen_exit
        THEN IF ~condition_met
             THEN [resolved |-> FALSE, barrier |-> [barrier EXCEPT !.seen_exit = TRUE]]
             ELSE [resolved |-> FALSE, barrier |-> barrier]
        ELSE IF condition_met
             THEN [resolved |-> TRUE, barrier |-> barrier]
             ELSE [resolved |-> FALSE, barrier |-> barrier]

\* Faulty variant of _evaluate_barrier: the condition is checked against every player
\* of the snapshot instead of the port's own
EvaluateBarrier_AnyPlayer(barrier, port, gs) ==
    IF gs.is_none THEN [resolved |-> FALSE, barrier |-> barrier]
    ELSE IF port \notin DOMAIN gs.players THEN [resolved |-> FALSE, barrier |-> barrier]
    ELSE LET condition_met ==
                 \E x \in DOMAIN gs.players :
                     CheckCondition(barrier.condition, gs.players[x])
         IN  IF ~barrier.seen_exit
             THEN IF ~condition_met
                  THEN [resolved |-> FALSE, barrier |-> [barrier EXCEPT !.seen_exit = TRUE]]
                  ELSE [resolved |-> FALSE, barrier |-> barrier]
             ELSE IF condition_met
                  THEN [resolved |-> TRUE, barrier |-> barrier]
                  ELSE [resolved |-> FALSE, barrier |-> barrier]

\* _evaluate_barrier: the returned bool and the Barrier instance as it leaves the call
\* Faulty variant of _evaluate_barrier: in the second phase the Barrier resolves
\* on the first snapshot holding its port, whatever the condition
EvaluateBarrier_EagerSecondPhase(barrier, port, gs) ==
    IF gs.is_none THEN [resolved |-> FALSE, barrier |-> barrier]
    ELSE IF port \notin DOMAIN gs.players THEN [resolved |-> FALSE, barrier |-> barrier]
    ELSE LET condition_met == CheckCondition(barrier.condition, gs.players[port])
         IN  IF ~barrier.seen_exit
             THEN IF ~condition_met
                  THEN [resolved |-> FALSE, barrier |-> [barrier EXCEPT !.seen_exit = TRUE]]
                  ELSE [resolved |-> FALSE, barrier |-> barrier]
             ELSE [resolved |-> TRUE, barrier |-> barrier]

\* _evaluate_barrier
EvaluateBarrier(barrier, port, gs) ==
    IF gs.is_none THEN [resolved |-> FALSE, barrier |-> barrier]
    ELSE IF port \notin DOMAIN gs.players THEN [resolved |-> FALSE, barrier |-> barrier]
    ELSE LET condition_met == CheckCondition(barrier.condition, gs.players[port])
         IN  IF ~barrier.seen_exit
             THEN IF ~condition_met
                  THEN [resolved |-> FALSE, barrier |-> [barrier EXCEPT !.seen_exit = TRUE]]
                  ELSE [resolved |-> FALSE, barrier |-> barrier]
             ELSE IF condition_met
                  THEN [resolved |-> TRUE, barrier |-> barrier]
                  ELSE [resolved |-> FALSE, barrier |-> barrier]

\* Faulty variant of _advance_action: the finished Action is popped one tick late
AdvanceAction_LatePop(qs, cs, port, action) ==
    LET cursor == cs[port]
    IN  IF cursor < Len(action.frames)
        THEN [queues |-> qs,
              cursors |-> [cs EXCEPT ![port] = cursor + 1],
              frame |-> action.frames[cursor + 1]]
        ELSE [queues |-> [qs EXCEPT ![port] = Tail(@)],
              cursors |-> [cs EXCEPT ![port] = 0],
              frame |-> NEUTRAL]

\* Faulty variant of _advance_action: one cursor shared by all ports
AdvanceAction_SharedCursor(qs, cs, port, action) ==
    LET cursor == cs[port]
    IN  IF cursor < Len(action.frames)
        THEN LET frame == action.frames[cursor + 1]
             IN  IF cursor + 1 >= Len(action.frames)
                 THEN [queues |-> [qs EXCEPT ![port] = Tail(@)],
                       cursors |-> [p \in DOMAIN cs |-> 0],
                       frame |-> frame]
                 ELSE [queues |-> qs,
                       cursors |-> [p \in DOMAIN cs |-> cursor + 1],
                       frame |-> frame]
        ELSE [queues |-> [qs EXCEPT ![port] = Tail(@)],
              cursors |-> [p \in DOMAIN cs |-> 0],
              frame |-> NEUTRAL]

\* Faulty variant of _advance_action: the cursor is not reset when the Action is popped
AdvanceAction_NoReset(qs, cs, port, action) ==
    LET cursor == cs[port]
    IN  IF cursor < Len(action.frames)
        THEN LET frame == action.frames[cursor + 1]
             IN  IF cursor + 1 >= Len(action.frames)
                 THEN [queues |-> [qs EXCEPT ![port] = Tail(@)],
                       cursors |-> [cs EXCEPT ![port] = cursor + 1],
                       frame |-> frame]
                 ELSE [queues |-> qs,
                       cursors |-> [cs EXCEPT ![port] = cursor + 1],
                       frame |-> frame]
        ELSE [queues |-> [qs EXCEPT ![port] = Tail(@)],
              cursors |-> [cs EXCEPT ![port] = 0],
              frame |-> NEUTRAL]

\* _advance_action
\* Faulty variant of _advance_action: an Action without frames is popped and the
\* Action behind it emits its first frame in the same tick
AdvanceAction_StartNext(qs, cs, port, action) ==
    LET cursor == cs[port]
        rest == Tail(qs[port])
    IN  IF cursor < Len(action.frames)
        THEN LET frame == action.frames[cursor + 1]
             IN  IF cursor + 1 >= Len(action.frames)
                 THEN [queues |-> [qs EXCEPT ![port] = Tail(@)],
                       cursors |-> [cs EXCEPT ![port] = 0],
                       frame |-> frame]
                 ELSE [queues |-> qs,
                       cursors |-> [cs EXCEPT ![port] = cursor + 1],
                       frame |-> frame]
        ELSE IF rest # <<>> /\ rest[1].type = "Action" /\ Len(rest[1].frames) >= 1
        THEN [queues |-> [qs EXCEPT ![port] = IF Len(rest[1].frames) = 1 THEN Tail(rest)
                                               ELSE rest],
              cursors |-> [cs EXCEPT ![port] = IF Len(rest[1].frames) = 1 THEN 0 ELSE 1],
              frame |-> rest[1].frames[1]]
        ELSE [queues |-> [qs EXCEPT ![port] = Tail(@)],
              cursors |-> [cs EXCEPT ![port] = 0],
              frame |-> NEUTRAL]

\* _advance_action
AdvanceAction(qs, cs, port, action) ==
    LET cursor == cs[port]
    IN  IF cursor < Len(action.frames)
        THEN LET frame == action.frames[cursor + 1]
             IN  IF cursor + 1 >= Len(action.frames)
                 THEN [queues |-> [qs EXCEPT ![port] = Tail(@)],
                       cursors |-> [cs EXCEPT ![port] = 0],
                       frame |-> frame]
                 ELSE [queues |-> qs,
                       cursors |-> [cs EXCEPT ![port] = cursor + 1],
                       frame |-> frame]
        ELSE [queues |-> [qs EXCEPT ![port] = Tail(@)],
              cursors |-> [cs EXCEPT ![port] = 0],
              frame |-> NEUTRAL]

\* Faulty variant of _step_port: a resolved Barrier is popped and the tick ends neutral
StepPort_Gap(qs, cs, port, gs) ==
    LET queue == qs[port]
    IN  IF queue = <<>>
        THEN [queues |-> qs, cursors |-> cs, frame |-> NEUTRAL]
        ELSE LET item == queue[1]
             IN  IF item.type = "Barrier"
                 THEN LET ev == EvaluateBarrier(item, port, gs)
                          qs1 == [qs EXCEPT ![port][1] = ev.barrier]
                      IN  IF ev.resolved
                          THEN [queues |-> [qs1 EXCEPT ![port] = Tail(@)],
                                cursors |-> cs, frame |-> NEUTRAL]
                          ELSE [queues |-> qs1, cursors |-> cs, frame |-> NEUTRAL]
                 ELSE AdvanceAction(qs, cs, port, item)

\* Faulty variant of _step_port: a Barrier behind a resolved Barrier is evaluated
\* in the same tick
StepPort_EvaluateNext(qs, cs, port, gs) ==
    LET queue == qs[port]
    IN  IF queue = <<>>
        THEN [queues |-> qs, cursors |-> cs, frame |-> NEUTRAL]
        ELSE LET item == queue[1]
             IN  IF item.type = "Barrier"
                 THEN LET ev == EvaluateBarrier(item, port, gs)
                          qs1 == [qs EXCEPT ![port][1] = ev.barrier]
                      IN  IF ev.resolved
                          THEN LET qs2 == [qs1 EXCEPT ![port] = Tail(@)]
                               IN  IF qs2[port] # <<>> /\ qs2[port][1].type = "Action"
                                   THEN AdvanceAction(qs2, cs, port, qs2[port][1])
                                   ELSE IF qs2[port] # <<>>
                                   THEN LET ev2 == EvaluateBarrier(qs2[port][1], port, gs)
                                        IN  [queues |-> [qs2 EXCEPT ![port][1] = ev2.barrier],
                                             cursors |-> cs, frame |-> NEUTRAL]
                                   ELSE [queues |-> qs2, cursors |-> cs, frame |-> NEUTRAL]
                          ELSE [queues |-> qs1, cursors |-> cs, frame |-> NEUTRAL]
                 ELSE IF item.type = "Action"
                 THEN AdvanceAction(qs, cs, port, item)
                 ELSE [queues |-> qs, cursors |-> cs, frame |-> NEUTRAL]

\* _step_port
StepPort(qs, cs, port, gs) ==
    LET queue == qs[port]
    IN  IF queue = <<>>
        THEN [queues |-> qs, cursors |-> cs, frame |-> NEUTRAL]
        ELSE LET item == queue[1]
             IN  IF item.type = "Barrier"
                 THEN LET ev == EvaluateBarrier(item, port, gs)
                          qs1 == [qs EXCEPT ![port][1] = ev.barrier]
                      IN  IF ev.resolved
                          THEN LET qs2 == [qs1 EXCEPT ![port] = Tail(@)]
                               IN  IF qs2[port] # <<>> /\ qs2[port][1].type = "Action"
                                   THEN AdvanceAction(qs2, cs, port, qs2[port][1])
                                   ELSE [queues |-> qs2, cursors |-> cs, frame |-> NEUTRAL]
                          ELSE [queues |-> qs1, cursors |-> cs, frame |-> NEUTRAL]
                 ELSE IF item.type = "Action"
                 THEN AdvanceAction(qs, cs, port, item)
                 ELSE [queues |-> qs, cursors |-> cs, frame |-> NEUTRAL]

\* Faulty variant of step: ports whose queue is empty get no entry in the result
RECURSIVE StepLoop_SkipIdle(_, _, _, _, _)
StepLoop_SkipIdle(keys, qs, cs, res, gs) ==
    IF keys = <<>>
    THEN [queues |-> qs, cursors |-> cs, result |-> res]
    ELSE LET port == Head(keys)
             r == StepPort(qs, cs, port, gs)
         IN  StepLoop_SkipIdle(Tail(keys), r.queues, r.cursors,
                      IF qs[port] = <<>> THEN res
                      ELSE [p \in DOMAIN res \cup {port} |->
                               IF p = port THEN r.frame ELSE res[p]],
                      gs)

\* step: the loop over list(self.queues.keys()), in key order
RECURSIVE StepLoop(_, _, _, _, _)
StepLoop(keys, qs, cs, res, gs) ==
    IF keys = <<>>
    THEN [queues |-> qs, cursors |-> cs, result |-> res]
    ELSE LET port == Head(keys)
             r == StepPort(qs, cs, port, gs)
         IN  StepLoop(Tail(keys), r.queues, r.cursors,
                      [p \in DOMAIN res \cup {port} |->
                          IF p = port THEN r.frame ELSE res[p]],
                      gs)

NoResult == [p \in {} |-> NEUTRAL]

SchedulerStep(qs, cs, keys, gs) == StepLoop(keys, qs, cs, NoResult, gs)

\* is_idle
IsIdle(qs, port) ==
    IF port \notin DOMAIN qs THEN TRUE ELSE Len(qs[port]) = 0

\* load: the queues, cursors and key order after load(port, queue)
\* Faulty variant of load: the queue gets new Barriers, their bits cleared
SchedulerLoad_FreshBarriers(qs, cs, keys, port, queue) ==
    [queues |-> [p \in DOMAIN qs \cup {port} |->
                    IF p = port
                    THEN [k \in 1..Len(queue) |->
                            IF queue[k].type = "Barrier" THEN Barrier(queue[k].condition)
                            ELSE queue[k]]
                    ELSE qs[p]],
     cursors |-> [p \in DOMAIN cs \cup {port} |-> IF p = port THEN 0 ELSE cs[p]],
     order |-> IF port \in DOMAIN qs THEN keys ELSE Append(keys, port)]

\* load: the queues, cursors and key order after load(port, queue)
SchedulerLoad(qs, cs, keys, port, queue) ==
    [queues |-> [p \in DOMAIN qs \cup {port} |-> IF p = port THEN queue ELSE qs[p]],
     cursors |-> [p \in DOMAIN cs \cup {port} |-> IF p = port THEN 0 ELSE cs[p]],
     order |-> IF port \in DOMAIN qs THEN keys ELSE Append(keys, port)]

\* Faulty variant of push: the cursor is reset, as load does
SchedulerPush_ResetCursor(qs, cs, keys, port, item) ==
    [queues |-> [p \in DOMAIN qs \cup {port} |->
                    IF p = port
                    THEN Append(IF port \in DOMAIN qs THEN qs[port] ELSE <<>>, item)
                    ELSE qs[p]],
     cursors |-> [p \in DOMAIN cs \cup {port} |-> IF p = port THEN 0 ELSE cs[p]],
     order |-> IF port \in DOMAIN qs THEN keys ELSE Append(keys, port)]

\* push: the queues, cursors and key order after push(port, item)
SchedulerPush(qs, cs, keys, port, item) ==
    LET qs0 == IF port \notin DOMAIN qs
               THEN [p \in DOMAIN qs \cup {port} |-> IF p = port THEN <<>> ELSE qs[p]]
               ELSE qs
        cs0 == IF port \notin DOMAIN qs
               THEN [p \in DOMAIN cs \cup {port} |-> IF p = port THEN 0 ELSE cs[p]]
               ELSE cs
    IN  [queues |-> [qs0 EXCEPT ![port] = Append(@, item)],
         cursors |-> cs0,
         order |-> IF port \in DOMAIN qs THEN keys ELSE Append(keys, port)]

-----------------------------------------------------------------------------
(* History bookkeeping *)

TotalItems(qs) ==
    LET RECURSIVE Sum(_)
        Sum(D) == IF D = {} THEN 0
                  ELSE LET p == CHOOSE x \in D : TRUE
                       IN  Len(qs[p]) + Sum(D \ {p})
    IN  Sum(DOMAIN qs)

FreshHist == [evaluated |-> FALSE, seen_false |-> FALSE]
NoTick == [head |-> "none", obs |-> "n/a", popped |-> 0]

HeadKind(q) == IF q = <<>> THEN "none" ELSE q[1].type

\* the port has an entry in the snapshot
Observed(gs, port) == ~gs.is_none /\ port \in DOMAIN gs.players

\* what the snapshot shows a port whose head item is a Barrier
Observation(gs, port, q) ==
    IF HeadKind(q) # "Barrier" THEN "n/a"
    ELSE IF gs.is_none THEN "none"
    ELSE IF port \notin DOMAIN gs.players THEN "absent"
    ELSE IF CheckCondition(q[1].condition, gs.players[port]) THEN "met"
    ELSE "unmet"

NoTwin == [active |-> FALSE, queues |-> NoPlayers, cursors |-> NoPlayers,
           order |-> <<>>, result |-> NoResult]

\* no file is being parsed
NoParse == [fs |-> <<>>, frames |-> <<>>, included |-> {}, stack |-> {}, opened |-> <<>>,
            state |-> "idle", defs |-> <<>>, variables |-> <<>>]

\* Game, and the None of `game: Game | None`
Game(stage, players) == [stage |-> stage, players |-> players]
NoGame == [none |-> TRUE]

\* no token list is being parsed
NoParser == [tokens |-> <<>>, pos |-> 0, loop |-> "none", state |-> "idle",
             game |-> NoGame, static_blocks |-> <<>>,
             match |-> [game |-> NoGame, static_blocks |-> <<>>],
             name |-> "", statements |-> <<>>, stalled |-> 0]

\* the caller has handed no list to load
NoList == [held |-> FALSE, port |-> 0, list |-> <<>>, taken |-> 0, again |-> "no"]

NoLoop == [stmt |-> <<>>, variables |-> [name \in {} |-> 0], queues |-> [p \in {} |-> <<>>],
           iterations |-> 0, output |-> <<>>, state |-> "idle"]

\* no Match is being compiled
NoMatch == [players |-> <<>>, static_blocks |-> <<>>]

-----------------------------------------------------------------------------
(* Scheduler.__init__ *)
Init ==
    /\ queues = [p \in {} |-> <<>>]
    /\ cursors = [p \in {} |-> 0]
    /\ order = <<>>
    /\ result = NoResult
    /\ last_call = [name |-> "init", port |-> 0]
    /\ hist = [p \in Ports |-> FreshHist]
    /\ tick = [p \in Ports |-> NoTick]
    /\ twin = NoTwin
    /\ chain = <<>>
    /\ seg_i = 0
    /\ output = <<>>
    /\ hold_active = FALSE
    /\ cstate = "idle"
    /\ match = NoMatch
    /\ ctx_queues = [p \in {} |-> <<>>]
    /\ blk_i = 0
    /\ stmt_i = 0
    /\ blk_vars = [name \in {} |-> 0]
    /\ mstate = "idle"
    /\ merge = [calls |-> 0, base |-> NEUTRAL, overlay |-> NEUTRAL, merged |-> NEUTRAL]
    /\ validation = [ast |-> NoMatch, block_i |-> 0, player_to_block |-> {}, state |-> "idle"]
    /\ inc = NoParse
    /\ prs = NoParser
    /\ wloop = NoLoop
    /\ caller = NoList

TwinAfterLoad(port, queue) ==
    IF ~twin.active THEN twin
    ELSE LET t == SchedulerLoad(twin.queues, twin.cursors, twin.order, port, queue)
         IN  [twin EXCEPT !.queues = t.queues, !.cursors = t.cursors, !.order = t.order,
                          !.result = NoResult]

TwinAfterPush(port, item) ==
    IF ~twin.active THEN twin
    ELSE LET t == SchedulerPush(twin.queues, twin.cursors, twin.order, port, item)
         IN  [twin EXCEPT !.queues = t.queues, !.cursors = t.cursors, !.order = t.order,
                          !.result = NoResult]

TwinAfterStep(gs) ==
    IF ~twin.active THEN twin
    ELSE LET t == SchedulerStep(twin.queues, twin.cursors, twin.order, gs)
         IN  [twin EXCEPT !.queues = t.queues, !.cursors = t.cursors, !.result = t.result]

\* Scheduler.load, on both schedulers
LoadBoth(port, queue) ==
    LET s == SchedulerLoad(queues, cursors, order, port, queue)
    IN  /\ TotalItems(s.queues) <= MaxItems
        /\ queues' = s.queues
        /\ cursors' = s.cursors
        /\ order' = s.order
        /\ twin' = TwinAfterLoad(port, queue)
        /\ last_call' = [name |-> "load", port |-> port]
        /\ result' = NoResult
        /\ UNCHANGED not_sched

LoadSeen(port, queue) ==
    /\ LoadBoth(port, queue)
    /\ hist' = [hist EXCEPT ![port] = FreshHist]
    /\ tick' = [p \in Ports |-> NoTick]

Load(port, queue) == LoadSeen(port, queue) /\ UNCHANGED caller

\* Scheduler.push, on both schedulers
PushBoth(port, item) ==
    LET s == SchedulerPush(queues, cursors, order, port, item)
    IN  /\ TotalItems(s.queues) <= MaxItems
        /\ queues' = s.queues
        /\ cursors' = s.cursors
        /\ order' = s.order
        /\ twin' = TwinAfterPush(port, item)
        /\ last_call' = [name |-> "push", port |-> port]
        /\ result' = NoResult
        /\ UNCHANGED not_sched

PushSeen(port, item) ==
    /\ PushBoth(port, item)
    /\ tick' = [p \in Ports |-> NoTick]
    /\ UNCHANGED hist

Push(port, item) == PushSeen(port, item) /\ UNCHANGED caller

HistAfterStep(p, gs, q0, q1) ==
    IF HeadKind(q0) = "Barrier"
    THEN IF Len(q1) = Len(q0)
         THEN LET met == CheckCondition(q0[1].condition, gs.players[p])
              IN  IF Observed(gs, p)
                  THEN [evaluated |-> TRUE, seen_false |-> hist[p].seen_false \/ ~met]
                  ELSE hist[p]
         ELSE FreshHist
    ELSE FreshHist

\* Scheduler.step, on both schedulers
StepBoth(gs) ==
    LET s == SchedulerStep(queues, cursors, order, gs)
    IN  /\ queues' = s.queues
        /\ cursors' = s.cursors
        /\ result' = s.result
        /\ twin' = TwinAfterStep(gs)
        /\ last_call' = [name |-> "step", port |-> 0]
        /\ UNCHANGED <<order, not_sched>>

StepSeen(gs) ==
    LET s == SchedulerStep(queues, cursors, order, gs)
    IN  /\ StepBoth(gs)
        /\ hist' = [p \in Ports |->
                      IF p \in DOMAIN queues
                      THEN HistAfterStep(p, gs, queues[p], s.queues[p])
                      ELSE hist[p]]
        /\ tick' = [p \in Ports |->
                      IF p \in DOMAIN queues
                      THEN [head |-> HeadKind(queues[p]),
                            obs |-> Observation(gs, p, queues[p]),
                            popped |-> Len(queues[p]) - Len(s.queues[p])]
                      ELSE NoTick]

Step(gs) == StepSeen(gs) /\ UNCHANGED caller

LoadCall == \E port \in Ports : \E queue \in LoadQueues : Load(port, queue)
PushCall == \E port \in Ports : \E item \in Items : Push(port, item)
StepCall == \E gs \in GameStates : Step(gs)

Next == LoadCall \/ PushCall \/ StepCall

Spec == Init /\ [][Next]_vars

\* the orders in which the keys of a dict with these keys can stand
KeyOrders(keys) ==
    LET n == Len(keys)
    IN  { [i \in 1..n |-> keys[f[i]]] :
            f \in { g \in [1..n -> 1..n] : \A i, j \in 1..n : g[i] = g[j] => i = j } }

\* a second scheduler is set up with the same queues, cursors and Barrier bits
\* (its dict may hold the keys in another order)
Fork ==
    /\ ~twin.active
    /\ \E keys \in KeyOrders(order) :
          /\ keys # order \/ Len(order) <= 1
          /\ twin' = [active |-> TRUE, queues |-> queues, cursors |-> cursors,
                      order |-> keys, result |-> result]
    /\ UNCHANGED <<queues, cursors, order, result, last_call, hist, tick, caller, not_sched>>

\* the same calls, without the bookkeeping of what the Barriers were shown
TwinLoadCall ==
    \E port \in Ports : \E queue \in LoadQueues :
        LoadBoth(port, queue) /\ UNCHANGED <<hist, tick, caller>>
TwinPushCall ==
    \E port \in Ports : \E item \in Items :
        PushBoth(port, item) /\ UNCHANGED <<hist, tick, caller>>
TwinStepCall ==
    \E gs \in GameStates : StepBoth(gs) /\ UNCHANGED <<hist, tick, caller>>

NextTwin == TwinLoadCall \/ TwinPushCall \/ TwinStepCall \/ Fork

SpecTwin == Init /\ [][NextTwin]_vars

-----------------------------------------------------------------------------
(* A caller that keeps the lists it loads and loads them again *)

\* load(port, queue) with a list the caller keeps
CallerLoad(port, queue) ==
    /\ LoadSeen(port, queue)
    /\ caller' = [held |-> TRUE, port |-> port, list |-> queue, taken |-> 0, again |-> "no"]

\* load(port, queue) with the list kept from the last load, on the same port:
\* its Barrier objects are those the scheduler has evaluated
CallerReload ==
    LET port == caller.port
        s == SchedulerLoad(queues, cursors, order, port, caller.list)
    IN  /\ caller.held
        /\ TotalItems(s.queues) <= MaxItems
        /\ queues' = s.queues
        /\ cursors' = s.cursors
        /\ order' = s.order
        /\ last_call' = [name |-> "reload", port |-> port]
        /\ result' = NoResult
        /\ hist' = [hist EXCEPT ![port] = FreshHist]
        /\ tick' = [p \in Ports |-> NoTick]
        /\ caller' = [caller EXCEPT
                        !.taken = 0,
                        !.again = IF HeadKind(caller.list) = "Barrier" /\ caller.list[1].seen_exit
                                  THEN "waiting" ELSE "no"]
        /\ UNCHANGED <<twin, not_sched>>

\* the caller's list after a step: the step sets the bit of the Barrier
\* object at the head of the queue, which is also in the list as long as the
\* items of the list are not used up. `again` follows a Barrier that was
\* loaded again with its bit set, up to the first tick that shows its
\* condition true.
ListAfterStep(c, q0, q1, obs) ==
    LET shared == c.taken < Len(c.list)
        gone == Len(q0) - Len(q1)
    IN  [c EXCEPT
            !.again = IF c.again = "waiting" /\ obs = "met"
                      THEN IF gone > 0 THEN "resolved" ELSE "missed"
                      ELSE IF c.again = "waiting" THEN "waiting" ELSE "no",
            !.list = IF shared /\ HeadKind(q0) = "Barrier" /\ gone = 0
                     THEN [c.list EXCEPT ![c.taken + 1] = q1[1]]
                     ELSE c.list,
            !.taken = IF c.taken + gone <= Len(c.list) THEN c.taken + gone
                      ELSE Len(c.list)]

CallerStep(gs) ==
    LET s == SchedulerStep(queues, cursors, order, gs)
    IN  /\ StepSeen(gs)
        /\ caller' = IF caller.held /\ caller.port \in DOMAIN queues
                      THEN ListAfterStep(caller, queues[caller.port], s.queues[caller.port],
                                         Observation(gs, caller.port, queues[caller.port]))
                      ELSE caller

\* a push on the port of a Barrier loaded again goes behind it
CallerPush(port, item) == PushSeen(port, item) /\ UNCHANGED caller

CallerLoadCall == \E port \in Ports : \E queue \in LoadQueues : CallerLoad(port, queue)
CallerPushCall == \E port \in Ports : \E item \in Items : CallerPush(port, item)
CallerStepCall == \E gs \in GameStates : CallerStep(gs)

NextReload == CallerLoadCall \/ CallerReload \/ CallerPushCall \/ CallerStepCall

SpecReload == Init /\ [][NextReload]_vars

-----------------------------------------------------------------------------
(* The chain compiler: compiler.py *)

\* longest chain handed to compile_chain
MaxChainLen == 3

\* values of the language, by Python type
IntV(n) == [t |-> "int", int |-> n]
FloatV(x) == [t |-> "float", float |-> x]
StrV(s) == [t |-> "str", str |-> s]
BoolV(b) == [t |-> "bool", bool |-> b]
ListV(items) == [t |-> "list", list |-> items]
NoneV == [t |-> "none"]

\* isinstance(val, int): bool is a subclass of int
IsInt(val) == val.t \in {"int", "bool"}
IntOf(val) == IF val.t = "int" THEN val.int ELSE IF val.bool THEN 1 ELSE 0

\* str(val) and float(val), for the values the builtins are given
StrOf(val) ==
    CASE val.t = "str" -> val.str
      [] val.t = "int" -> ToString(val.int)
      [] val.t = "float" -> ToString(val.float) \o ".0"
      [] val.t = "bool" -> IF val.bool THEN "True" ELSE "False"

CanFloat(val) == val.t \in {"int", "float", "bool"}
FloatOf(val) == IF val.t = "float" THEN val.float ELSE IntOf(val)

\* AST nodes: parser.py
IntegerLiteral(n) == [expr |-> "IntegerLiteral", int |-> n]
FloatLiteral(x) == [expr |-> "FloatLiteral", float |-> x]
StringLiteral(s) == [expr |-> "StringLiteral", str |-> s]
BoolLiteral(b) == [expr |-> "BoolLiteral", bool |-> b]
Identifier(name) == [expr |-> "Identifier", name |-> name]
CallExpr(name, args) == [expr |-> "CallExpr", name |-> name, args |-> args]
BinaryOp(op, left, right) == [expr |-> "BinaryOp", op |-> op, left |-> left, right |-> right]

ActionSegment(name, args) == [kind |-> "ActionSegment", name |-> name, args |-> args]
WaitSegment(condition) == [kind |-> "WaitSegment", condition |-> condition]
HoldSegment(duration) == [kind |-> "HoldSegment", duration |-> duration]

PlayerAction(player, ch) == [stmt |-> "PlayerAction", player |-> player, chain |-> ch]
CallStatement(name, args) == [stmt |-> "CallStatement", name |-> name, args |-> args]
LetStatement(name, value) == [stmt |-> "LetStatement", name |-> name, value |-> value]
AssignStatement(name, value) == [stmt |-> "AssignStatement", name |-> name, value |-> value]
\* else_body None is the empty list
IfStatement(condition, then_body, else_body) ==
    [stmt |-> "IfStatement", condition |-> condition, then_body |-> then_body,
     else_body |-> else_body]
WhileStatement(condition, body) ==
    [stmt |-> "WhileStatement", condition |-> condition, body |-> body]
Def(name, params, body) == [name |-> name, params |-> params, body |-> body]

\* a faulty merge: the overlay's sticks and triggers always win
MergeFrames_OverlayWins(base, overlay) ==
    InputFrame(base.buttons \cup overlay.buttons, overlay.main_stick, overlay.c_stick,
               overlay.l_trigger, overlay.r_trigger)

\* _merge_frames: union the buttons, overwrite non-default sticks and triggers
MergeFrames(base, overlay) ==
    InputFrame(base.buttons \cup overlay.buttons,
               IF overlay.main_stick # <<0, 0>> THEN overlay.main_stick ELSE base.main_stick,
               IF overlay.c_stick # <<0, 0>> THEN overlay.c_stick ELSE base.c_stick,
               IF overlay.l_trigger # 0 THEN overlay.l_trigger ELSE base.l_trigger,
               IF overlay.r_trigger # 0 THEN overlay.r_trigger ELSE base.r_trigger)

\* _port_number("P1") = 1
PortNumber(player) == CHOOSE p \in 1..4 : player = "P" \o ToString(p)

BARRIER_CONDITIONS == {"act", "ground", "apex"}

\* what a call produces: the exception raised ("" for none) and the items returned
Produced(items) == [err |-> "", items |-> items]
Raised(err) == [err |-> err, items |-> <<>>]

BuiltinButton(args) ==
    Produced(<< Action(<< InputFrame({StrOf(args[1])}, <<0, 0>>, <<0, 0>>, 0, 0) >>) >>)

BuiltinStick(args) ==
    IF CanFloat(args[1]) /\ CanFloat(args[2])
    THEN Produced(<< Action(<< InputFrame({}, <<FloatOf(args[1]), FloatOf(args[2])>>,
                                          <<0, 0>>, 0, 0) >>) >>)
    ELSE Raised("ValueError")

BuiltinCstick(args) ==
    IF CanFloat(args[1]) /\ CanFloat(args[2])
    THEN Produced(<< Action(<< InputFrame({}, <<0, 0>>,
                                          <<FloatOf(args[1]), FloatOf(args[2])>>, 0, 0) >>) >>)
    ELSE Raised("ValueError")

BuiltinTrigger(args) ==
    IF ~CanFloat(args[2]) THEN Raised("ValueError")
    ELSE IF StrOf(args[1]) = "L"
    THEN Produced(<< Action(<< InputFrame({}, <<0, 0>>, <<0, 0>>, FloatOf(args[2]), 0) >>) >>)
    ELSE Produced(<< Action(<< InputFrame({}, <<0, 0>>, <<0, 0>>, 0, FloatOf(args[2])) >>) >>)

BuiltinTurn(args) == Produced(<< Action(<< NEUTRAL >>) >>)

BUILTINS == { <<"button", 1>>, <<"stick", 2>>, <<"cstick", 2>>, <<"trigger", 2>>, <<"turn", 1>> }

CallBuiltin(key, args) ==
    CASE key = <<"button", 1>> -> BuiltinButton(args)
      [] key = <<"stick", 2>> -> BuiltinStick(args)
      [] key = <<"cstick", 2>> -> BuiltinCstick(args)
      [] key = <<"trigger", 2>> -> BuiltinTrigger(args)
      [] key = <<"turn", 1>> -> BuiltinTurn(args)

\* the program's defs (match.defs):
\*   Def d()   { button(A) :: hold 1 :: button(B) }
\*   Def e()   { wait 0 }
\*   Def two() { button(X) :: wait 1 :: button(Y) }
\*   Def foo()  { button(A) }
\*   Def foo(x) { button(x) }
\*   Def bar()  { P1 button(A) }
\*   Def bar(x) { P1 button(x) }
MatchDefs ==
    << Def("d", <<>>, << PlayerAction("implicit",
                           << ActionSegment("button", <<Identifier("A")>>),
                              HoldSegment(IntegerLiteral(1)),
                              ActionSegment("button", <<Identifier("B")>>) >>) >>),
       Def("e", <<>>, << PlayerAction("implicit", << WaitSegment(IntegerLiteral(0)) >>) >>),
       Def("two", <<>>, << PlayerAction("implicit",
                           << ActionSegment("button", <<Identifier("X")>>),
                              WaitSegment(IntegerLiteral(1)),
                              ActionSegment("button", <<Identifier("Y")>>) >>) >>),
       Def("foo", <<>>, << CallStatement("button", <<Identifier("A")>>) >>),
       Def("foo", <<"x">>, << CallStatement("button", <<Identifier("x")>>) >>),
       Def("bar", <<>>, << PlayerAction("P1",
                             << ActionSegment("button", <<Identifier("A")>>) >>) >>),
       Def("bar", <<"x">>, << PlayerAction("P1",
                                << ActionSegment("button", <<Identifier("x")>>) >>) >>),
       Def("wn", <<>>, << PlayerAction("P1", << WaitSegment(Identifier("n")) >>) >>),
       Def("wn", <<"n">>, << PlayerAction("P1", << WaitSegment(Identifier("n")) >>) >>),
       Def("wk", <<>>, << PlayerAction("P1", << WaitSegment(Identifier("k")) >>) >>),
       Def("set", <<>>, << AssignStatement("n", IntegerLiteral(0)),
                           LetStatement("k", IntegerLiteral(0)),
                           PlayerAction("P1", << WaitSegment(Identifier("n")) >>) >>) >>

\* _CompilerContext.defs: keyed by (name, number of parameters); a later def
\* with the same key replaces an earlier one
DefKeys == { <<MatchDefs[k].name, Len(MatchDefs[k].params)>> : k \in 1..Len(MatchDefs) }
\* a faulty lookup: by name alone, whatever the number of parameters
DefOf_ByName(key) ==
    MatchDefs[CHOOSE k \in 1..Len(MatchDefs) :
                /\ MatchDefs[k].name = key[1]
                /\ \A j \in 1..Len(MatchDefs) : MatchDefs[j].name = key[1] => k <= j]

DefOf(key) ==
    LET ks == { k \in 1..Len(MatchDefs) :
                  <<MatchDefs[k].name, Len(MatchDefs[k].params)>> = key }
    IN  MatchDefs[CHOOSE k \in ks : \A j \in ks : j <= k]

\* _CompilerContext.global_vars after the program's `let n = 2`
global_vars == [name \in {"n"} |-> IntV(2)]

\* bool(val), as `if cond:` takes it
Truthy(val) ==
    CASE val.t = "int" -> val.int # 0
      [] val.t = "float" -> val.float # 0
      [] val.t = "str" -> val.str # ""
      [] val.t = "bool" -> val.bool
      [] val.t = "list" -> val.list # <<>>

\* variables[name] = val
Bind(variables, name, val) ==
    [x \in DOMAIN variables \cup {name} |-> IF x = name THEN val ELSE variables[x]]

\* self.queues[p].extend(items), after `if p not in self.queues: self.queues[p] = []`
QueueExtend(qs, p, items) ==
    [x \in DOMAIN qs \cup {p} |-> IF x = p
                                  THEN (IF p \in DOMAIN qs THEN qs[p] ELSE <<>>) \o items
                                  ELSE qs[x]]

\* what an evaluation leaves: the exception raised ("" for none), the value,
\* and ctx.queues as the calls made on the way left it
Evaluated(val, qs) == [err |-> "", val |-> val, queues |-> qs]
EvalRaised(err, qs) == [err |-> err, val |-> NoneV, queues |-> qs]

\* what executing statements leaves: the exception, the items produced,
\* ctx.queues and the scope
Executed(items, qs, variables) ==
    [err |-> "", items |-> items, queues |-> qs, variables |-> variables]
ExecRaised(err, qs, variables) ==
    [err |-> err, items |-> <<>>, queues |-> qs, variables |-> variables]

\* the state of one compile_chain loop: its locals, and the exception raised
ChainState(out, hold, err) == [output |-> out, hold_active |-> hold, err |-> err]

\* the same with ctx.queues as the loop has left it
LoopState(cs, qs) ==
    [output |-> cs.output, hold_active |-> cs.hold_active, err |-> cs.err, queues |-> qs]

Last(s) == s[Len(s)]

\* a faulty layering: the overlay is merged onto every frame, the first included
ActionSegmentStep_OverlayAll(out, hold, r) ==
    IF r.err # "" THEN ChainState(out, hold, r.err)
    ELSE IF hold /\ r.items # <<>> /\ out # <<>>
            /\ Last(out).type = "Action" /\ r.items[1].type = "Action"
    THEN IF Last(out).frames = <<>> THEN ChainState(out, hold, "IndexError")
         ELSE LET overlay_frame == IF r.items[1].frames # <<>>
                                   THEN r.items[1].frames[1] ELSE NEUTRAL
                  old == Last(out).frames
                  new_frames == [k \in 1..Len(old) |-> MergeFrames(old[k], overlay_frame)]
              IN  ChainState([out EXCEPT ![Len(out)] = Action(new_frames)], FALSE, "")
    ELSE ChainState(out \o r.items, FALSE, "")

\* compile_chain, ActionSegment branch: r is what _resolve_action produced
ActionSegmentStep(out, hold, r) ==
    IF r.err # "" THEN ChainState(out, hold, r.err)
    ELSE IF hold /\ r.items # <<>> /\ out # <<>>
            /\ Last(out).type = "Action" /\ r.items[1].type = "Action"
    THEN IF Last(out).frames = <<>> THEN ChainState(out, hold, "IndexError")
         ELSE LET overlay_frame == IF r.items[1].frames # <<>>
                                   THEN r.items[1].frames[1] ELSE NEUTRAL
                  old == Last(out).frames
                  new_frames == <<old[1]>> \o
                                [k \in 1..(Len(old) - 1) |-> MergeFrames(old[k + 1], overlay_frame)]
              IN  ChainState([out EXCEPT ![Len(out)] = Action(new_frames)], FALSE, "")
    ELSE ChainState(out \o r.items, FALSE, "")

\* a faulty wait: one neutral frame too many
WaitSegmentStep_OneMore(out, hold, val) ==
    IF IsInt(val)
    THEN ChainState(Append(out, Action([k \in 1..(IntOf(val) + 1) |-> NEUTRAL])), FALSE, "")
    ELSE IF val.t = "str" /\ val.str \in BARRIER_CONDITIONS
    THEN ChainState(Append(out, Barrier(val.str)), FALSE, "")
    ELSE ChainState(out, FALSE, "CompilerError")

\* a faulty wait: hold_active is left as it was
WaitSegmentStep_KeepsHold(out, hold, val) ==
    IF IsInt(val)
    THEN ChainState(Append(out, Action([k \in 1..IntOf(val) |-> NEUTRAL])), hold, "")
    ELSE IF val.t = "str" /\ val.str \in BARRIER_CONDITIONS
    THEN ChainState(Append(out, Barrier(val.str)), hold, "")
    ELSE ChainState(out, FALSE, "CompilerError")

\* compile_chain, WaitSegment branch: val is the evaluated condition
WaitSegmentStep(out, hold, val) ==
    IF IsInt(val)
    THEN ChainState(Append(out, Action([k \in 1..IntOf(val) |-> NEUTRAL])), FALSE, "")
    ELSE IF val.t = "str" /\ val.str \in BARRIER_CONDITIONS
    THEN ChainState(Append(out, Barrier(val.str)), FALSE, "")
    ELSE ChainState(out, FALSE, "CompilerError")

\* compile_chain, HoldSegment branch: duration is the evaluated duration
HoldSegmentStep(out, hold, duration) ==
    IF ~IsInt(duration) THEN ChainState(out, hold, "CompilerError")
    ELSE IF out # <<>> /\ Last(out).type = "Action" /\ Last(out).frames # <<>>
    THEN LET last_frame == Last(Last(out).frames)
         IN  ChainState([out EXCEPT ![Len(out)] =
                            Action(@.frames \o [k \in 1..IntOf(duration) |-> last_frame])],
                        TRUE, "")
    ELSE ChainState(out, TRUE, "")

\* safeguard against infinite loops in compilation
MAX_ITERATIONS == 10000

\* _apply_binop, for `+` and `<` on integers and booleans; Python raises
\* TypeError when one operand is a string and the other a number
ApplyBinop(op, left, right) ==
    CASE op = "+" /\ IsInt(left) /\ IsInt(right) ->
            [err |-> "", val |-> IntV(IntOf(left) + IntOf(right))]
      [] op = "<" /\ IsInt(left) /\ IsInt(right) ->
            [err |-> "", val |-> BoolV(IntOf(left) < IntOf(right))]
      [] op \in {"+", "<"} /\ {left.t, right.t} \in {{"str", "int"}, {"str", "bool"}} ->
            [err |-> "TypeError", val |-> NoneV]

\* a faulty ceiling: the pass that would be the MAX_ITERATIONS-th is refused
ExceedsCeiling_OnePassEarly(iterations) == iterations >= MAX_ITERATIONS

\* `if iterations > MAX_ITERATIONS`, after `iterations += 1`
ExceedsCeiling(iterations) == iterations > MAX_ITERATIONS

\* what one pass of a while loop leaves: whether the loop is over, the
\* exception raised, the items of the pass, ctx.queues, the scope, the counter
Passed(items, qs, variables, iterations) ==
    [over |-> FALSE, err |-> "", items |-> items, queues |-> qs,
     variables |-> variables, iterations |-> iterations]
LoopOver(err, qs, variables, iterations) ==
    [over |-> TRUE, err |-> err, items |-> <<>>, queues |-> qs,
     variables |-> variables, iterations |-> iterations]

\* F applied to the value, which is computed once
Once(value, F(_)) == CHOOSE y \in { F(x) : x \in {value} } : TRUE

RECURSIVE EvalExpr(_, _, _)
RECURSIVE EvalArgs(_, _, _)
RECURSIVE ResolveAction(_, _, _, _)
RECURSIVE ExecDef(_, _, _, _, _, _)
RECURSIVE ExecStatement(_, _, _, _, _)
RECURSIVE ExecStatements(_, _, _, _, _)
RECURSIVE WhilePass(_, _, _, _, _, _)
RECURSIVE WhileLoop(_, _, _, _, _, _, _)
RECURSIVE SegmentStep(_, _, _, _)
RECURSIVE CompileLoop(_, _, _, _)

\* eval_expr, for literals, identifiers and calls; a call executes the def
\* with no port and with queue appending enabled, and yields its item list
EvalExpr(expr, variables, qs) ==
    CASE expr.expr = "IntegerLiteral" -> Evaluated(IntV(expr.int), qs)
      [] expr.expr = "FloatLiteral" -> Evaluated(FloatV(expr.float), qs)
      [] expr.expr = "StringLiteral" -> Evaluated(StrV(expr.str), qs)
      [] expr.expr = "BoolLiteral" -> Evaluated(BoolV(expr.bool), qs)
      [] expr.expr = "Identifier" ->
            IF expr.name \in DOMAIN variables THEN Evaluated(variables[expr.name], qs)
            ELSE IF expr.name \in DOMAIN global_vars
            THEN Evaluated(global_vars[expr.name], qs)
            ELSE Evaluated(StrV(expr.name), qs)
      [] expr.expr = "CallExpr" ->
            LET key == <<expr.name, Len(expr.args)>>
            IN  Once(EvalArgs(expr.args, variables, qs), LAMBDA a :
                  IF a.err # "" THEN EvalRaised(a.err, a.queues)
                  ELSE IF key \in DefKeys
                  THEN Once(ExecDef(DefOf(key), a.vals, variables, 0, TRUE, a.queues),
                            LAMBDA r : IF r.err # "" THEN EvalRaised(r.err, r.queues)
                                       ELSE Evaluated(ListV(r.items), r.queues))
                  ELSE EvalRaised("CompilerError", a.queues))
      [] expr.expr = "BinaryOp" ->
            Once(EvalExpr(expr.left, variables, qs), LAMBDA l :
              IF l.err # "" THEN l
              ELSE Once(EvalExpr(expr.right, variables, l.queues), LAMBDA r :
                     IF r.err # "" THEN r
                     ELSE Once(ApplyBinop(expr.op, l.val, r.val), LAMBDA b :
                            IF b.err # "" THEN EvalRaised(b.err, r.queues)
                            ELSE Evaluated(b.val, r.queues))))

\* [self.eval_expr(a, variables) for a in args], left to right
EvalArgs(args, variables, qs) ==
    IF args = <<>> THEN [err |-> "", vals |-> <<>>, queues |-> qs]
    ELSE Once(EvalExpr(Head(args), variables, qs), LAMBDA first :
           IF first.err # "" THEN [err |-> first.err, vals |-> <<>>, queues |-> first.queues]
           ELSE Once(EvalArgs(Tail(args), variables, first.queues), LAMBDA rest :
                  [err |-> rest.err, vals |-> <<first.val>> \o rest.vals,
                   queues |-> rest.queues]))

\* _resolve_action: a def call (append_to_queue=False) or a builtin
ResolveAction(segment, variables, port, qs) ==
    LET key == <<segment.name, Len(segment.args)>>
    IN  Once(EvalArgs(segment.args, variables, qs), LAMBDA a :
          IF a.err # "" THEN ExecRaised(a.err, a.queues, variables)
          ELSE IF key \in DefKeys
          THEN ExecDef(DefOf(key), a.vals, variables, port, FALSE, a.queues)
          ELSE IF key \in BUILTINS
          THEN Once(CallBuiltin(key, a.vals), LAMBDA b :
                 [err |-> b.err, items |-> b.items, queues |-> a.queues,
                  variables |-> variables])
          ELSE ExecRaised("CompilerError", a.queues, variables))

\* Faulty variant of _exec_def: the caller's locals hide the globals
ExecDef_CallerWins(defn, args, caller_vars, port, append_to_queue, qs) ==
    LET n == IF Len(defn.params) < Len(args) THEN Len(defn.params) ELSE Len(args)
        bound == { defn.params[k] : k \in 1..n }
        local_vars ==
            [name \in DOMAIN caller_vars \cup DOMAIN global_vars \cup bound |->
                IF name \in bound
                THEN args[CHOOSE k \in 1..n : defn.params[k] = name
                                              /\ \A j \in 1..n : defn.params[j] = name => j <= k]
                ELSE IF name \in DOMAIN caller_vars THEN caller_vars[name]
                ELSE global_vars[name]]
    IN  [ExecStatements(defn.body, local_vars, port, append_to_queue, qs)
           EXCEPT !.variables = caller_vars]

\* _exec_def: the caller's scope, overlaid by the globals, overlaid by the
\* arguments; what the body does to that scope is dropped on return
ExecDef(defn, args, caller_vars, port, append_to_queue, qs) ==
    LET n == IF Len(defn.params) < Len(args) THEN Len(defn.params) ELSE Len(args)
        bound == { defn.params[k] : k \in 1..n }
        local_vars ==
            [name \in DOMAIN caller_vars \cup DOMAIN global_vars \cup bound |->
                IF name \in bound
                THEN args[CHOOSE k \in 1..n : defn.params[k] = name
                                              /\ \A j \in 1..n : defn.params[j] = name => j <= k]
                ELSE IF name \in DOMAIN global_vars THEN global_vars[name]
                ELSE caller_vars[name]]
    IN  [ExecStatements(defn.body, local_vars, port, append_to_queue, qs)
           EXCEPT !.variables = caller_vars]

\* one pass of the loop of _exec_statements; port 0 stands for None
ExecStatement(stmt, variables, port, append_to_queue, qs) ==
    CASE stmt.stmt = "PlayerAction" ->
            IF stmt.player = "implicit" /\ port = 0
            THEN ExecRaised("CompilerError", qs, variables)
            ELSE LET p == IF stmt.player = "implicit" THEN port
                          ELSE PortNumber(stmt.player)
                 IN  Once(CompileLoop(stmt.chain, LoopState(ChainState(<<>>, FALSE, ""), qs),
                                      variables, p),
                          LAMBDA st :
                            IF st.err # "" THEN ExecRaised(st.err, st.queues, variables)
                            ELSE Executed(st.output,
                                          IF append_to_queue
                                          THEN QueueExtend(st.queues, p, st.output)
                                          ELSE st.queues,
                                          variables))
      [] stmt.stmt = "CallStatement" ->
            LET key == <<stmt.name, Len(stmt.args)>>
            IN  Once(EvalArgs(stmt.args, variables, qs), LAMBDA a :
                  IF a.err # "" THEN ExecRaised(a.err, a.queues, variables)
                  ELSE IF key \in DefKeys
                  THEN ExecDef(DefOf(key), a.vals, variables, port, append_to_queue, a.queues)
                  ELSE IF key \in BUILTINS
                  THEN Once(CallBuiltin(key, a.vals), LAMBDA b :
                         IF b.err # "" THEN ExecRaised(b.err, a.queues, variables)
                         ELSE Executed(b.items,
                                       IF append_to_queue /\ port # 0
                                       THEN QueueExtend(a.queues, port, b.items)
                                       ELSE a.queues,
                                       variables))
                  ELSE ExecRaised("CompilerError", a.queues, variables))
      [] stmt.stmt \in {"LetStatement", "AssignStatement"} ->
            Once(EvalExpr(stmt.value, variables, qs), LAMBDA v :
              IF v.err # "" THEN ExecRaised(v.err, v.queues, variables)
              ELSE Executed(<<>>, v.queues, Bind(variables, stmt.name, v.val)))
      [] stmt.stmt = "IfStatement" ->
            Once(EvalExpr(stmt.condition, variables, qs), LAMBDA c :
              IF c.err # "" THEN ExecRaised(c.err, c.queues, variables)
              ELSE ExecStatements(IF Truthy(c.val) THEN stmt.then_body ELSE stmt.else_body,
                                  variables, port, append_to_queue, c.queues))
      [] stmt.stmt = "WhileStatement" ->
            WhileLoop(stmt, variables, port, append_to_queue, qs, 0, <<>>)

\* one pass of the while loop of _exec_statements: the condition is
\* evaluated, the counter is incremented and tested, the body is executed
WhilePass(stmt, variables, port, append_to_queue, qs, iterations) ==
    Once(EvalExpr(stmt.condition, variables, qs), LAMBDA c :
      IF c.err # "" THEN LoopOver(c.err, c.queues, variables, iterations)
      ELSE IF ~Truthy(c.val) THEN LoopOver("", c.queues, variables, iterations)
      ELSE IF ExceedsCeiling(iterations + 1)
      THEN LoopOver("CompilerError", c.queues, variables, iterations + 1)
      ELSE Once(ExecStatements(stmt.body, variables, port, append_to_queue, c.queues),
                LAMBDA r :
                  IF r.err # "" THEN LoopOver(r.err, r.queues, r.variables, iterations + 1)
                  ELSE Passed(r.items, r.queues, r.variables, iterations + 1)))

\* the while loop of _exec_statements, from the counter and the items so far
WhileLoop(stmt, variables, port, append_to_queue, qs, iterations, items) ==
    Once(WhilePass(stmt, variables, port, append_to_queue, qs, iterations), LAMBDA p :
      IF p.over
      THEN IF p.err # "" THEN ExecRaised(p.err, p.queues, p.variables)
           ELSE Executed(items, p.queues, p.variables)
      ELSE WhileLoop(stmt, p.variables, port, append_to_queue, p.queues, p.iterations,
                     items \o p.items))

\* _exec_statements
ExecStatements(statements, variables, port, append_to_queue, qs) ==
    IF statements = <<>> THEN Executed(<<>>, qs, variables)
    ELSE Once(ExecStatement(Head(statements), variables, port, append_to_queue, qs),
              LAMBDA first :
                IF first.err # "" THEN first
                ELSE Once(ExecStatements(Tail(statements), first.variables, port,
                                         append_to_queue, first.queues),
                          LAMBDA rest : [rest EXCEPT !.items = first.items \o rest.items]))

\* one iteration of the for loop of compile_chain
SegmentStep(segment, st, variables, port) ==
    CASE segment.kind = "ActionSegment" ->
            Once(ResolveAction(segment, variables, port, st.queues), LAMBDA r :
              LoopState(ActionSegmentStep(st.output, st.hold_active, r), r.queues))
      [] segment.kind \in {"WaitSegment", "HoldSegment"} ->
            Once(EvalExpr(IF segment.kind = "WaitSegment" THEN segment.condition
                          ELSE segment.duration, variables, st.queues),
                 LAMBDA v :
                   IF v.err # ""
                   THEN LoopState(ChainState(st.output,
                                             segment.kind = "HoldSegment" /\ st.hold_active,
                                             v.err), v.queues)
                   ELSE LoopState(IF segment.kind = "WaitSegment"
                                  THEN WaitSegmentStep(st.output, st.hold_active, v.val)
                                  ELSE HoldSegmentStep(st.output, st.hold_active, v.val),
                                  v.queues))

\* the for loop of compile_chain, from the locals st on
CompileLoop(ch, st, variables, port) ==
    IF ch = <<>> \/ st.err # "" THEN st
    ELSE Once(SegmentStep(Head(ch), st, variables, port),
              LAMBDA next : CompileLoop(Tail(ch), next, variables, port))

\* compile_chain
CompileChain(ch, variables, port, qs) ==
    CompileLoop(ch, LoopState(ChainState(<<>>, FALSE, ""), qs), variables, port)

\* the segments of the chains compiled: builtin calls, def calls, an unknown
\* action, waits and holds
Segments ==
    { ActionSegment("button", <<Identifier("A")>>),
      ActionSegment("button", <<Identifier("B")>>),
      ActionSegment("stick", <<FloatLiteral(1), FloatLiteral(0)>>),
      ActionSegment("d", <<>>),
      ActionSegment("e", <<>>),
      ActionSegment("two", <<>>),
      ActionSegment("nope", <<>>),
      WaitSegment(IntegerLiteral(1)),
      WaitSegment(Identifier("act")),
      HoldSegment(IntegerLiteral(1)),
      HoldSegment(Identifier("n")),
      WaitSegment(IntegerLiteral(0)),
      WaitSegment(Identifier("ground")),
      WaitSegment(Identifier("apex")),
      WaitSegment(BoolLiteral(TRUE)),
      WaitSegment(FloatLiteral(2)),
      WaitSegment(Identifier("foo")),
      WaitSegment(CallExpr("foo", <<>>)) }

RECURSIVE SeqsUpTo(_, _)
SeqsUpTo(S, n) ==
    IF n = 0 THEN { <<>> }
    ELSE LET shorter == SeqsUpTo(S, n - 1)
         IN  shorter \cup { Append(s, x) : s \in shorter, x \in S }

\* chains X :: hold N :: wait M :: Y
HeldThenWaited ==
    { << x, HoldSegment(IntegerLiteral(1)), w, y >> :
        x \in { ActionSegment("button", <<Identifier("A")>>), ActionSegment("d", <<>>) },
        w \in { WaitSegment(IntegerLiteral(1)), WaitSegment(Identifier("act")) },
        y \in { ActionSegment("button", <<Identifier("B")>>),
                ActionSegment("stick", <<FloatLiteral(1), FloatLiteral(0)>>) } }

Chains == (SeqsUpTo(Segments, MaxChainLen) \ { <<>> }) \cup HeldThenWaited

\* the chain of the statement `P1 <chain>` of a Static block: port 1, and the
\* block's copy of the global scope
ChainPort == 1
block_vars == global_vars

\* compile_chain is entered; ctx.queues holds the empty queue of the Static port
CompileChainCall ==
    /\ cstate = "idle"
    /\ \E ch \in Chains : chain' = ch
    /\ seg_i' = 0
    /\ output' = <<>>
    /\ hold_active' = FALSE
    /\ cstate' = "running"
    /\ ctx_queues' = [p \in {ChainPort} |-> <<>>]
    /\ UNCHANGED match_vars
    /\ UNCHANGED not_compiler

\* the loop body has run for the next segment: st are the locals it leaves
Iterated(st) ==
    /\ seg_i' = seg_i + 1
    /\ output' = st.output
    /\ hold_active' = st.hold_active
    /\ cstate' = IF st.err # "" THEN st.err ELSE "running"
    /\ ctx_queues' = st.queues
    /\ UNCHANGED <<chain, match_vars>>
    /\ UNCHANGED not_compiler

AtSegment(kind) ==
    cstate = "running" /\ seg_i < Len(chain) /\ chain[seg_i + 1].kind = kind

\* the locals of the loop, as SegmentStep takes them
Locals == LoopState(ChainState(output, hold_active, ""), ctx_queues)

IterateActionSegment ==
    /\ AtSegment("ActionSegment")
    /\ Iterated(SegmentStep(chain[seg_i + 1], Locals, block_vars, ChainPort))

IterateWaitSegment ==
    /\ AtSegment("WaitSegment")
    /\ Iterated(SegmentStep(chain[seg_i + 1], Locals, block_vars, ChainPort))

IterateHoldSegment ==
    /\ AtSegment("HoldSegment")
    /\ Iterated(SegmentStep(chain[seg_i + 1], Locals, block_vars, ChainPort))

\* the loop is over: compile_chain returns output
CompileChainReturn ==
    /\ cstate = "running"
    /\ seg_i = Len(chain)
    /\ cstate' = "returned"
    /\ UNCHANGED <<chain, seg_i, output, hold_active, compile_vars>>
    /\ UNCHANGED not_compiler

NextChain ==
    \/ CompileChainCall
    \/ IterateActionSegment
    \/ IterateWaitSegment
    \/ IterateHoldSegment
    \/ CompileChainReturn

SpecChain == Init /\ [][NextChain]_vars

-----------------------------------------------------------------------------
(* Parser._validate_static_player_uniqueness *)

PlayerConfig(port, player_type) == [port |-> port, player_type |-> player_type]
StaticBlock(name, statements) == [name |-> name, statements |-> statements]
Match(players, static_blocks) == [players |-> players, static_blocks |-> static_blocks]

\* a faulty walk: else bodies are not entered
RECURSIVE ExtractPlayersFromStatements_NoElse(_)
ExtractPlayersFromStatements_NoElse(statements) ==
    IF statements = <<>> THEN {}
    ELSE LET stmt == Head(statements)
             here == CASE stmt.stmt = "PlayerAction" -> {stmt.player}
                       [] stmt.stmt = "IfStatement" ->
                            ExtractPlayersFromStatements_NoElse(stmt.then_body)
                       [] stmt.stmt = "WhileStatement" ->
                            ExtractPlayersFromStatements_NoElse(stmt.body)
                       [] OTHER -> {}
         IN  here \cup ExtractPlayersFromStatements_NoElse(Tail(statements))

\* _extract_players_from_statements: the players of the PlayerActions of the
\* statements, of if and else bodies and of while bodies
RECURSIVE ExtractPlayersFromStatements(_)
ExtractPlayersFromStatements(statements) ==
    IF statements = <<>> THEN {}
    ELSE LET stmt == Head(statements)
             here == CASE stmt.stmt = "PlayerAction" -> {stmt.player}
                       [] stmt.stmt = "IfStatement" ->
                            ExtractPlayersFromStatements(stmt.then_body)
                              \cup ExtractPlayersFromStatements(stmt.else_body)
                       [] stmt.stmt = "WhileStatement" ->
                            ExtractPlayersFromStatements(stmt.body)
                       [] OTHER -> {}
         IN  here \cup ExtractPlayersFromStatements(Tail(statements))

\* static_players of _validate_static_player_uniqueness
StaticPlayers(ast) ==
    { ast.players[k].port :
        k \in { j \in 1..Len(ast.players) : ast.players[j].player_type = "Static" } }

\* one pass of the loop over ast.static_blocks: the players the block claims,
\* and whether one of them is claimed already
ClaimedBy(ast, static) == ExtractPlayersFromStatements(static.statements) \cap StaticPlayers(ast)
Duplicated(ast, static, player_to_block) == ClaimedBy(ast, static) \cap player_to_block # {}

\* the loop from block i on: "ParseError" if it raises, "" if it ends
RECURSIVE ValidateFrom(_, _, _)
ValidateFrom(ast, i, player_to_block) ==
    IF i > Len(ast.static_blocks) THEN ""
    ELSE IF Duplicated(ast, ast.static_blocks[i], player_to_block) THEN "ParseError"
    ELSE ValidateFrom(ast, i + 1, player_to_block \cup ClaimedBy(ast, ast.static_blocks[i]))

\* _validate_static_player_uniqueness
ValidateStaticPlayerUniqueness(ast) == ValidateFrom(ast, 1, {})

\* the Players lists of the programs parsed
PlayerLists ==
    { << PlayerConfig("P1", "Static") >>,
      << PlayerConfig("P1", "Static"), PlayerConfig("P3", "Human") >>,
      << PlayerConfig("P1", "Static"), PlayerConfig("P2", "Static") >>,
      << PlayerConfig("P1", "Human"), PlayerConfig("P2", "Static") >> }

\* most Static blocks in a validated program
MaxBlocks == 3

\* the statements of the validated Static blocks: player actions on P1, P2
\* and P3 and an implicit one, player actions inside then, else and while
\* bodies and inside a while inside an else, and a call of a def that
\* targets P1
BlockStatements ==
    LET On(player) == PlayerAction(player, << ActionSegment("button", <<Identifier("A")>>) >>)
        cond == BoolLiteral(TRUE)
    IN  { On("P1"), On("P2"), On("P3"),
          PlayerAction("implicit", << WaitSegment(IntegerLiteral(1)) >>),
          IfStatement(cond, << On("P1") >>, <<>>),
          IfStatement(cond, << On("P2") >>, << On("P1") >>),
          IfStatement(cond, << On("P1") >>, << On("P1") >>),
          WhileStatement(cond, << On("P2") >>),
          IfStatement(cond, <<>>, << WhileStatement(cond, << On("P1") >>) >>),
          CallStatement("bar", <<>>) }

\* the Static blocks a, b, c, ... of at most one statement each
BlocksOf(bodies) ==
    [k \in 1..Len(bodies) |->
        StaticBlock(<<"a", "b", "c", "d">>[k], bodies[k])]

Asts ==
    { Match(players, BlocksOf(bodies)) :
        players \in PlayerLists \cup { <<>> },
        bodies \in SeqsUpTo({ <<>> } \cup { <<stmt>> : stmt \in BlockStatements }, MaxBlocks) }

\* _validate_static_player_uniqueness is called: it returns at once when
\* there is no Game or no Static player
ValidateCall ==
    /\ validation.state = "idle"
    /\ \E ast \in Asts :
          validation' = [ast |-> ast, block_i |-> 0, player_to_block |-> {},
                         state |-> IF StaticPlayers(ast) = {} THEN "returned" ELSE "running"]
    /\ UNCHANGED <<inc, prs, not_parser>>

\* one pass of the loop over ast.static_blocks
ValidateBlockPass ==
    /\ validation.state = "running"
    /\ validation.block_i < Len(validation.ast.static_blocks)
    /\ LET static == validation.ast.static_blocks[validation.block_i + 1]
       IN  validation' =
             IF Duplicated(validation.ast, static, validation.player_to_block)
             THEN [validation EXCEPT !.state = "ParseError"]
             ELSE [validation EXCEPT !.block_i = @ + 1,
                                     !.player_to_block = @ \cup ClaimedBy(validation.ast, static)]
    /\ UNCHANGED <<inc, prs, not_parser>>

\* the loop is over: the program is accepted
ValidateReturn ==
    /\ validation.state = "running"
    /\ validation.block_i = Len(validation.ast.static_blocks)
    /\ validation' = [validation EXCEPT !.state = "returned"]
    /\ UNCHANGED <<inc, prs, not_parser>>

NextValidate ==
    \/ ValidateCall
    \/ ValidateBlockPass
    \/ ValidateReturn

SpecValidate == Init /\ [][NextValidate]_vars

-----------------------------------------------------------------------------
(* Parser.parse and Parser._handle_include over a directory of files *)

\* most #INCLUDE directives in the files together
MaxDirectives == 3

\* the main file, two libraries that the glob "lib/*.masl" matches, and a
\* library both may include
Files == {"main", "a", "b", "shared"}

\* sorted(glob.glob(raw_path)) for the paths a directive may name
Targets == { <<"a">>, <<"b">>, <<"shared">>, <<"main">>, <<"a", "b">> }

\* the contents of the files: each file holds its #INCLUDE directives, then
\* `Def <file>_func() {...}` and `let <file>_var = ...`
RECURSIVE FileSystemsUpTo(_)
FileSystemsUpTo(n) ==
    IF n = 0 THEN { [f \in Files |-> <<>>] }
    ELSE LET fewer == FileSystemsUpTo(n - 1)
         IN  fewer \cup { [fs EXCEPT ![f] = Append(@, t)] :
                            fs \in fewer, f \in Files, t \in Targets }

FileSystems == FileSystemsUpTo(MaxDirectives)

OwnDefs(file) == << file \o "_func" >>
OwnLets(file) == << file \o "_var" >>

\* a faulty cycle test: made after the visited test, so never true
Circular_AfterVisited(resolved, stack, included) ==
    resolved \in stack /\ resolved \notin included

\* `if resolved in self._stack`
Circular(resolved, stack, included) == resolved \in stack

\* a faulty visited test: nothing counts as visited
AlreadyIncluded_Never(resolved, included) == FALSE

\* `if resolved in self._included`
AlreadyIncluded(resolved, included) == resolved \in included

\* a parser in progress: its file, the directives it has handled, the files
\* of the current directive it has handled, and its result so far
ParserFrame(file) == [file |-> file, dir_i |-> 0, file_i |-> 0, defs |-> <<>>,
                      variables |-> <<>>]

TopFrame == inc.frames[Len(inc.frames)]

AtDirective ==
    /\ inc.state = "running"
    /\ TopFrame.dir_i < Len(inc.fs[TopFrame.file])

\* file_path of the loop `for file_path in files`
FilePath == inc.fs[TopFrame.file][TopFrame.dir_i + 1][TopFrame.file_i + 1]

\* the loop moves to the next file of the directive, or the directive is done
NextFile(frame) ==
    IF frame.file_i + 1 = Len(inc.fs[frame.file][frame.dir_i + 1])
    THEN [frame EXCEPT !.dir_i = @ + 1, !.file_i = 0]
    ELSE [frame EXCEPT !.file_i = @ + 1]

\* Parser(tokens, base_path).parse() is called on the main file
ParseCall ==
    /\ inc.state = "idle"
    /\ \E fs \in FileSystems :
          inc' = [fs |-> fs, frames |-> << ParserFrame("main") >>, included |-> {},
                  stack |-> {}, opened |-> [f \in Files |-> 0], state |-> "running",
                  defs |-> <<>>, variables |-> <<>>]
    /\ UNCHANGED <<validation, prs, not_parser>>

\* the file is on the stack: ParseError, and every parser in progress is
\* left through its finally clause
IncludeCircular ==
    /\ AtDirective
    /\ Circular(FilePath, inc.stack, inc.included)
    /\ inc' = [inc EXCEPT !.state = "ParseError", !.frames = <<>>, !.stack = {}]
    /\ UNCHANGED <<validation, prs, not_parser>>

\* the file has been included before: continue
IncludeSkip ==
    /\ AtDirective
    /\ ~Circular(FilePath, inc.stack, inc.included)
    /\ AlreadyIncluded(FilePath, inc.included)
    /\ inc' = [inc EXCEPT !.frames[Len(inc.frames)] = NextFile(@)]
    /\ UNCHANGED <<validation, prs, not_parser>>

\* the file is opened, tokenized and handed to a sub-parser
IncludeEnter ==
    /\ AtDirective
    /\ ~Circular(FilePath, inc.stack, inc.included)
    /\ ~AlreadyIncluded(FilePath, inc.included)
    /\ inc' = [inc EXCEPT !.included = @ \cup {FilePath},
                          !.stack = @ \cup {FilePath},
                          !.opened[FilePath] = @ + 1,
                          !.frames = Append(@, ParserFrame(FilePath))]
    /\ UNCHANGED <<validation, prs, not_parser>>

ParserDone ==
    /\ inc.state = "running"
    /\ TopFrame.dir_i = Len(inc.fs[TopFrame.file])

\* sub_parser.parse() returns: its defs and lets join the includer's, and
\* the file leaves the stack
SubParseReturn ==
    /\ ParserDone
    /\ Len(inc.frames) > 1
    /\ LET sub == TopFrame
           parent == inc.frames[Len(inc.frames) - 1]
           merged == [parent EXCEPT
                        !.defs = @ \o sub.defs \o OwnDefs(sub.file),
                        !.variables = @ \o sub.variables \o OwnLets(sub.file)]
       IN  inc' = [inc EXCEPT !.stack = @ \ {sub.file},
                              !.frames = Append(SubSeq(@, 1, Len(@) - 2), NextFile(merged))]
    /\ UNCHANGED <<validation, prs, not_parser>>

\* parse() of the main file returns the merged Match
ParseReturn ==
    /\ ParserDone
    /\ Len(inc.frames) = 1
    /\ inc' = [inc EXCEPT !.state = "returned", !.frames = <<>>,
                          !.defs = TopFrame.defs \o OwnDefs("main"),
                          !.variables = TopFrame.variables \o OwnLets("main")]
    /\ UNCHANGED <<validation, prs, not_parser>>

NextInclude ==
    \/ ParseCall
    \/ IncludeCircular
    \/ IncludeSkip
    \/ IncludeEnter
    \/ SubParseReturn
    \/ ParseReturn

SpecInclude == Init /\ [][NextInclude]_vars

-----------------------------------------------------------------------------
(* Parser.parse over a token list, one pass of its loops at a time *)

\* most Match blocks, sections and body tokens in a source together
MaxGrowth == 5

\* most passes in a row of the statement-list loop that consume no token
MaxStalled == 2

Token(type, value) == [type |-> type, value |-> value]
Tok(type) == Token(type, "")

\* GAME_HEADER of tests/test_compiler.py:
\* Game { Stage FD Players { Static P1 Fox } Stocks 4 Time 8 }
GAME_HEADER ==
    << Tok("GAME"), Tok("LBRACE"), Tok("STAGE"), Token("IDENTIFIER", "FD"),
       Tok("PLAYERS"), Tok("LBRACE"), Tok("STATIC"), Token("PLAYER", "P1"),
       Token("IDENTIFIER", "Fox"), Tok("RBRACE"),
       Tok("STOCKS"), Token("INTEGER", "4"), Tok("TIME"), Token("INTEGER", "8"),
       Tok("RBRACE") >>

\* Game { Stage FD Players { Static P1 Fox } }, Game { Stage BF },
\* GAME_HEADER and Static s { }
Sections ==
    { << Tok("GAME"), Tok("LBRACE"), Tok("STAGE"), Token("IDENTIFIER", "FD"),
         Tok("PLAYERS"), Tok("LBRACE"), Tok("STATIC"), Token("PLAYER", "P1"),
         Token("IDENTIFIER", "Fox"), Tok("RBRACE"), Tok("RBRACE") >>,
      << Tok("GAME"), Tok("LBRACE"), Tok("STAGE"), Token("IDENTIFIER", "BF"), Tok("RBRACE") >>,
      GAME_HEADER,
      << Tok("STATIC"), Token("IDENTIFIER", "s"), Tok("LBRACE"), Tok("RBRACE") >> }

\* the tokens put into the body of a Static block: the call `foo`, and three
\* tokens that start no statement
BodyTokens == { Token("IDENTIFIER", "foo"), Token("INTEGER", "5"), Tok("ELSE"), Tok("GAME") }

\* the sources one step larger than src (a list of Match bodies, each a list
\* of sections): a new Match block, a new section in the last Match, or a
\* new token in the body of the last Static block
Grow(src) ==
    LET m == Len(src)
        n == Len(src[m])
        sec == src[m][n]
    IN  { Append(src, <<>>) }
        \cup (IF m = 0 THEN {}
              ELSE { [src EXCEPT ![m] = Append(@, x)] : x \in Sections })
        \cup (IF m = 0 \/ n = 0 \/ sec[1].type # "STATIC" THEN {}
              ELSE { [src EXCEPT ![m][n] = SubSeq(sec, 1, Len(sec) - 1) \o <<t, Tok("RBRACE")>>] :
                       t \in BodyTokens })

RECURSIVE SourcesUpTo(_)
SourcesUpTo(n) ==
    IF n = 0 THEN { <<>> }
    ELSE LET smaller == SourcesUpTo(n - 1)
         IN  smaller \cup UNION { Grow(src) : src \in smaller }

RECURSIVE Flatten(_)
Flatten(seqs) == IF seqs = <<>> THEN <<>> ELSE Head(seqs) \o Flatten(Tail(seqs))

\* Lexer.tokenize of the source, or of the source without its last k tokens
Tokenize(src, k) ==
    LET text == Flatten([m \in 1..Len(src) |->
                           <<Tok("MATCH"), Tok("LBRACE")>> \o Flatten(src[m]) \o <<Tok("RBRACE")>>])
    IN  SubSeq(text, 1, IF Len(text) >= k THEN Len(text) - k ELSE 0) \o <<Tok("EOF")>>

TokenLists == { Tokenize(src, k) : src \in SourcesUpTo(MaxGrowth), k \in 0..1 }

\* _current, _advance
Current(tokens, pos) == IF pos < Len(tokens) THEN tokens[pos + 1] ELSE tokens[Len(tokens)]
Advance(tokens, pos) == IF pos < Len(tokens) - 1 THEN pos + 1 ELSE pos

\* a run of _expect calls: where it leaves pos, and whether one of them raised
RECURSIVE Expect(_, _, _)
Expect(tokens, pos, types) ==
    IF types = <<>> THEN [err |-> "", pos |-> pos]
    ELSE IF Current(tokens, pos).type # Head(types) THEN [err |-> "ParseError", pos |-> pos]
    ELSE Expect(tokens, Advance(tokens, pos), Tail(types))

\* the loop of _parse_players
RECURSIVE ParsePlayersLoop(_, _, _)
ParsePlayersLoop(tokens, pos, players) ==
    LET type == Current(tokens, pos).type
    IN  IF type = "RBRACE"
        THEN [err |-> "", pos |-> Advance(tokens, pos), players |-> players]
        ELSE IF type \in {"STATIC", "HUMAN"}
        THEN LET e == Expect(tokens, Advance(tokens, pos),
                             IF type = "STATIC" THEN <<"PLAYER", "IDENTIFIER">>
                             ELSE <<"PLAYER">>)
             IN  IF e.err # "" THEN [err |-> e.err, pos |-> e.pos, players |-> players]
                 ELSE ParsePlayersLoop(tokens, e.pos,
                        Append(players,
                               PlayerConfig(Current(tokens, Advance(tokens, pos)).value,
                                            IF type = "STATIC" THEN "Static" ELSE "Human")))
        ELSE [err |-> "ParseError", pos |-> pos, players |-> players]

\* the loop of _parse_game: Stage and Players entries until the closing brace
RECURSIVE ParseGameLoop(_, _, _)
ParseGameLoop(tokens, pos, game) ==
    LET type == Current(tokens, pos).type
    IN  IF type = "RBRACE" THEN [err |-> "", pos |-> Advance(tokens, pos), game |-> game]
        ELSE IF type = "STAGE"
        THEN LET e == Expect(tokens, Advance(tokens, pos), <<"IDENTIFIER">>)
             IN  IF e.err # "" THEN [err |-> e.err, pos |-> e.pos, game |-> game]
                 ELSE ParseGameLoop(tokens, e.pos,
                        [game EXCEPT !.stage = Current(tokens, Advance(tokens, pos)).value])
        ELSE IF type = "PLAYERS"
        THEN LET e == Expect(tokens, pos, <<"PLAYERS", "LBRACE">>)
                 r == ParsePlayersLoop(tokens, e.pos, <<>>)
             IN  IF e.err # "" THEN [err |-> e.err, pos |-> e.pos, game |-> game]
                 ELSE IF r.err # "" THEN [err |-> r.err, pos |-> r.pos, game |-> game]
                 ELSE ParseGameLoop(tokens, r.pos, [game EXCEPT !.players = r.players])
        ELSE [err |-> "ParseError", pos |-> pos, game |-> game]

\* _parse_game
ParseGame(tokens, pos) ==
    LET e == Expect(tokens, pos, <<"GAME", "LBRACE">>)
    IN  IF e.err # "" THEN [err |-> e.err, pos |-> e.pos, game |-> NoGame]
        ELSE ParseGameLoop(tokens, e.pos, Game("", <<>>))

\* the parser raises ParseError, or goes on from pos in the loop given
Raise == [prs EXCEPT !.state = "ParseError"]

\* Parser(tokens).parse() is called
ParserCall ==
    /\ prs.state = "idle"
    /\ \E tokens \in TokenLists :
          prs' = [NoParser EXCEPT !.tokens = tokens, !.loop = "parse", !.state = "running"]
    /\ UNCHANGED <<validation, inc, not_parser>>

\* one pass of the loop of parse(): at EOF the loop ends, the Match is
\* validated and returned; at MATCH _parse_match is entered; any other token
\* is unexpected
ParsePass ==
    /\ prs.state = "running"
    /\ prs.loop = "parse"
    /\ LET type == Current(prs.tokens, prs.pos).type
           e == Expect(prs.tokens, prs.pos, <<"MATCH", "LBRACE">>)
           ast == Match(IF prs.game = NoGame THEN <<>> ELSE prs.game.players,
                        prs.static_blocks)
       IN  prs' = IF type = "EOF"
                  THEN [prs EXCEPT !.state = IF ValidateStaticPlayerUniqueness(ast) = ""
                                             THEN "returned" ELSE "ParseError"]
                  ELSE IF type = "MATCH" /\ e.err = ""
                  THEN [prs EXCEPT !.pos = e.pos, !.loop = "match",
                                   !.match = [game |-> NoGame, static_blocks |-> <<>>]]
                  ELSE Raise
    /\ UNCHANGED <<validation, inc, not_parser>>

\* one pass of the loop of _parse_match: at the closing brace the Match
\* block is returned to parse(), which refuses a second Game and merges the
\* block; a Game section sets match.game; Static opens a statement list; any
\* other token is unexpected
MatchPass ==
    /\ prs.state = "running"
    /\ prs.loop = "match"
    /\ LET type == Current(prs.tokens, prs.pos).type
           g == ParseGame(prs.tokens, prs.pos)
           e == Expect(prs.tokens, prs.pos, <<"STATIC", "IDENTIFIER", "LBRACE">>)
       IN  prs' = CASE type = "RBRACE" ->
                         IF prs.match.game # NoGame /\ prs.game # NoGame THEN Raise
                         ELSE [prs EXCEPT !.pos = Advance(prs.tokens, prs.pos),
                                          !.loop = "parse",
                                          !.game = IF prs.match.game # NoGame
                                                   THEN prs.match.game ELSE @,
                                          !.static_blocks = @ \o prs.match.static_blocks]
                    [] type = "GAME" ->
                         IF g.err # "" THEN Raise
                         ELSE [prs EXCEPT !.pos = g.pos, !.match.game = g.game]
                    [] type = "STATIC" ->
                         IF e.err # "" THEN Raise
                         ELSE [prs EXCEPT !.pos = e.pos, !.loop = "statements",
                                          !.name = Current(prs.tokens,
                                                           Advance(prs.tokens, prs.pos)).value,
                                          !.statements = <<>>, !.stalled = 0]
                    [] OTHER -> Raise
    /\ UNCHANGED <<validation, inc, not_parser>>

\* _parse_statement at an IDENTIFIER that no `=`, `(` or `::` follows: a
\* CallStatement; at a token that starts no statement: None, pos unchanged
ParseStatement(tokens, pos) ==
    IF Current(tokens, pos).type = "IDENTIFIER"
    THEN [stmt |-> << CallStatement(Current(tokens, pos).value, <<>>) >>,
          pos |-> Advance(tokens, pos)]
    ELSE [stmt |-> <<>>, pos |-> pos]

\* one pass of the loop of _parse_statement_list: at the closing brace or at
\* EOF the loop ends and _parse_static_block expects the brace; otherwise
\* _parse_statement is called and its statement, if any, is kept
StatementListPass ==
    /\ prs.state = "running"
    /\ prs.loop = "statements"
    /\ LET type == Current(prs.tokens, prs.pos).type
           r == ParseStatement(prs.tokens, prs.pos)
       IN  /\ (type \notin {"RBRACE", "EOF"} /\ r.pos = prs.pos) => prs.stalled < MaxStalled
           /\ prs' = CASE type = "EOF" -> Raise
                       [] type = "RBRACE" ->
                            [prs EXCEPT !.pos = Advance(prs.tokens, prs.pos), !.loop = "match",
                                        !.match.static_blocks =
                                            Append(@, StaticBlock(prs.name, prs.statements))]
                       [] OTHER ->
                            [prs EXCEPT !.pos = r.pos, !.statements = @ \o r.stmt,
                                        !.stalled = IF r.pos = prs.pos THEN @ + 1 ELSE 0]
    /\ UNCHANGED <<validation, inc, not_parser>>

NextParser ==
    \/ ParserCall
    \/ ParsePass
    \/ MatchPass
    \/ StatementListPass

SpecParser == Init /\ [][NextParser]_vars

-----------------------------------------------------------------------------
(* compile_match, one statement of a Static block at a time *)

\* most statements in the Static blocks of a program
MaxStmts == 2

\* the statements of the Static blocks compiled: explicit player actions,
\* calls of bar with 0, 1 and 2 arguments as a chain segment, as a call
\* statement and as a call expression, a builtin called as a statement, and
\* an implicit player action
Statements ==
    { PlayerAction("P1", << ActionSegment("button", <<Identifier("A")>>) >>),
      PlayerAction("P2", << ActionSegment("button", <<Identifier("B")>>) >>),
      PlayerAction("P3", << ActionSegment("button", <<Identifier("A")>>) >>),
      PlayerAction("P1", << ActionSegment("bar", <<>>) >>),
      PlayerAction("P1", << ActionSegment("bar", <<Identifier("B")>>) >>),
      PlayerAction("P2", << ActionSegment("bar", <<Identifier("B")>>) >>),
      PlayerAction("P1", << ActionSegment("bar", <<Identifier("A"), Identifier("B")>>) >>),
      CallStatement("bar", <<>>),
      CallStatement("bar", <<Identifier("B")>>),
      CallStatement("bar", <<Identifier("A"), Identifier("B")>>),
      LetStatement("v", CallExpr("bar", <<>>)),
      LetStatement("v", CallExpr("bar", <<Identifier("B")>>)),
      LetStatement("v", CallExpr("bar", <<Identifier("A"), Identifier("B")>>)),
      CallStatement("button", <<Identifier("A")>>),
      PlayerAction("implicit", << WaitSegment(IntegerLiteral(1)) >>) }

\* a Game, the defs MatchDefs, `let n = 2`, and two Static blocks a and b
\* sharing at most MaxStmts statements
Matches ==
    { Match(players,
            << StaticBlock("a", SubSeq(stmts, 1, k)),
               StaticBlock("b", SubSeq(stmts, k + 1, Len(stmts))) >>) :
        players \in PlayerLists,
        <<stmts, k>> \in { <<s, j>> \in SeqsUpTo(Statements, MaxStmts) \X (0..MaxStmts) :
                             j <= Len(s) } }

\* the programs compiled: what Parser.parse returns
Programs == { m \in Matches : ValidateStaticPlayerUniqueness(m) = "" }

\* _CompilerContext.static_ports
StaticPorts(m) ==
    { PortNumber(m.players[k].port) :
        k \in { j \in 1..Len(m.players) : m.players[j].player_type = "Static" } }

HumanPorts(m) ==
    { PortNumber(m.players[k].port) :
        k \in { j \in 1..Len(m.players) : m.players[j].player_type = "Human" } }

\* compile_match is entered: _CompilerContext.__init__ gives every Static
\* port an empty queue, the globals are evaluated, and the first block gets
\* its copy of them
CompileMatchCall ==
    /\ mstate = "idle"
    /\ \E m \in Programs :
          /\ match' = m
          /\ ctx_queues' = [p \in StaticPorts(m) |-> <<>>]
    /\ blk_i' = 0
    /\ stmt_i' = 0
    /\ blk_vars' = global_vars
    /\ mstate' = "running"
    /\ UNCHANGED chain_vars
    /\ UNCHANGED not_compiler

InBlock == mstate = "running" /\ blk_i < Len(match.static_blocks)

\* the statement the loop of _exec_statements is at
CurrentStatement == match.static_blocks[blk_i + 1].statements[stmt_i + 1]

\* one pass of the loop of _exec_statements over a Static block: no port,
\* queue appending enabled
ExecStatementStep ==
    /\ InBlock
    /\ stmt_i < Len(match.static_blocks[blk_i + 1].statements)
    /\ LET r == ExecStatement(CurrentStatement, blk_vars, 0, TRUE, ctx_queues)
       IN  /\ ctx_queues' = r.queues
           /\ blk_vars' = r.variables
           /\ mstate' = IF r.err # "" THEN r.err ELSE "running"
    /\ stmt_i' = stmt_i + 1
    /\ UNCHANGED <<match, blk_i, chain_vars>>
    /\ UNCHANGED not_compiler

\* the block is over: the next one starts from a fresh copy of the globals
StaticBlockDone ==
    /\ InBlock
    /\ stmt_i = Len(match.static_blocks[blk_i + 1].statements)
    /\ blk_i' = blk_i + 1
    /\ stmt_i' = 0
    /\ blk_vars' = global_vars
    /\ UNCHANGED <<match, mstate, ctx_queues, chain_vars>>
    /\ UNCHANGED not_compiler

\* compile_match returns ctx.queues
CompileMatchReturn ==
    /\ mstate = "running"
    /\ blk_i = Len(match.static_blocks)
    /\ mstate' = "returned"
    /\ UNCHANGED <<match, blk_i, stmt_i, blk_vars, ctx_queues, chain_vars>>
    /\ UNCHANGED not_compiler

NextCompile ==
    \/ CompileMatchCall
    \/ ExecStatementStep
    \/ StaticBlockDone
    \/ CompileMatchReturn

SpecCompile == Init /\ [][NextCompile]_vars

-----------------------------------------------------------------------------
(* compile_match on programs whose Static blocks and defs share names *)

\* most statements in the Static blocks of such a program
MaxScope == 3

\* the caller reassigns the global n and lets a local k, calls defs that
\* read n (a global, or their parameter), read k, or assign both, as a
\* statement and as a chain segment, and reads n and k itself
ScopeStatements ==
    { AssignStatement("n", IntegerLiteral(1)),
      LetStatement("k", IntegerLiteral(1)),
      CallStatement("wn", <<>>),
      CallStatement("wn", <<IntegerLiteral(3)>>),
      CallStatement("wk", <<>>),
      CallStatement("set", <<>>),
      PlayerAction("P1", << ActionSegment("wn", <<>>) >>),
      PlayerAction("P1", << ActionSegment("set", <<>>) >>),
      PlayerAction("P1", << WaitSegment(Identifier("n")) >>),
      PlayerAction("P1", << WaitSegment(Identifier("k")) >>) }

\* a Game with Static P1, the defs MatchDefs, `let n = 2`, and two Static
\* blocks a and b sharing at most MaxScope statements
ScopeMatches ==
    { Match(<< PlayerConfig("P1", "Static") >>,
            << StaticBlock("a", SubSeq(stmts, 1, k)),
               StaticBlock("b", SubSeq(stmts, k + 1, Len(stmts))) >>) :
        <<stmts, k>> \in { <<s, j>> \in SeqsUpTo(ScopeStatements, MaxScope) \X (0..MaxScope) :
                             j <= Len(s) } }

\* those Parser.parse returns
ScopePrograms == { m \in ScopeMatches : ValidateStaticPlayerUniqueness(m) = "" }

\* compile_match is entered with such a program
CompileScopeCall ==
    /\ mstate = "idle"
    /\ \E m \in ScopePrograms :
          /\ match' = m
          /\ ctx_queues' = [p \in StaticPorts(m) |-> <<>>]
    /\ blk_i' = 0
    /\ stmt_i' = 0
    /\ blk_vars' = global_vars
    /\ mstate' = "running"
    /\ UNCHANGED chain_vars
    /\ UNCHANGED not_compiler

NextScope ==
    \/ CompileScopeCall
    \/ ExecStatementStep
    \/ StaticBlockDone
    \/ CompileMatchReturn

SpecScope == Init /\ [][NextScope]_vars

-----------------------------------------------------------------------------
(* The while loop of _exec_statements, one pass at a time *)

\* most passes of the loops that count to a small limit
MaxCount == 2

\* `c = c + 1` and `i = i + 1`
Increment(name) ==
    AssignStatement(name, BinaryOp("+", Identifier(name), IntegerLiteral(1)))

\* the bodies of the loops: each counts its runs in c; one emits an item,
\* one calls an unknown action after counting
Bodies ==
    { << Increment("c"), Increment("i") >>,
      << PlayerAction("P1", << ActionSegment("button", <<Identifier("A")>>) >>),
         Increment("c"), Increment("i") >>,
      << Increment("c"), PlayerAction("P1", << ActionSegment("nope", <<>>) >>),
         Increment("i") >> }

\* while (i < limit) { body }
CountTo(limit, body) ==
    WhileStatement(BinaryOp("<", Identifier("i"), IntegerLiteral(limit)), body)

\* the while statements executed: loops that count to a small limit, to the
\* ceiling and past it, loops whose condition never changes, a condition
\* that calls an unknown def, and a condition that compares an unbound name
WhileStatements ==
    { CountTo(limit, body) : limit \in 0..MaxCount, body \in Bodies }
    \cup { CountTo(limit, << Increment("c"), Increment("i") >>) :
             limit \in {MAX_ITERATIONS - 1, MAX_ITERATIONS, MAX_ITERATIONS + 1} }
    \cup { WhileStatement(BoolLiteral(TRUE), << Increment("c") >>),
           WhileStatement(Identifier("n"), << Increment("c") >>),
           WhileStatement(BoolLiteral(FALSE), << Increment("c") >>),
           WhileStatement(CallExpr("nope", <<>>), << Increment("c") >>),
           WhileStatement(BinaryOp("<", Identifier("j"), IntegerLiteral(3)),
                          << Increment("c") >>) }

\* the scope of a Static block after `let i = 0` and `let c = 0`
LoopScope == Bind(Bind(global_vars, "i", IntV(0)), "c", IntV(0))

\* _exec_statements comes to a while statement of a Static block (no port,
\* queue appending enabled): `iterations = 0`
ExecWhileCall ==
    /\ wloop.state = "idle"
    /\ \E stmt \in WhileStatements :
          wloop' = [stmt |-> stmt, variables |-> LoopScope, queues |-> [p \in {1} |-> <<>>],
                    iterations |-> 0, output |-> <<>>, state |-> "running"]
    /\ UNCHANGED not_while

\* the pass the loop is about to make
ThisPass == WhilePass(wloop.stmt, wloop.variables, 0, TRUE, wloop.queues, wloop.iterations)

\* the condition held, the ceiling was not exceeded and the body ran
WhileBodyPass ==
    /\ wloop.state = "running"
    /\ ~ThisPass.over
    /\ wloop' = [wloop EXCEPT !.variables = ThisPass.variables,
                              !.queues = ThisPass.queues,
                              !.iterations = ThisPass.iterations,
                              !.output = @ \o ThisPass.items]
    /\ UNCHANGED not_while

\* the condition failed: _exec_statements goes on to the next statement
WhileExit ==
    /\ wloop.state = "running"
    /\ ThisPass.over /\ ThisPass.err = ""
    /\ wloop' = [wloop EXCEPT !.variables = ThisPass.variables,
                              !.queues = ThisPass.queues,
                              !.state = "done"]
    /\ UNCHANGED not_while

\* the condition, the ceiling test or the body raised
WhileRaise ==
    /\ wloop.state = "running"
    /\ ThisPass.over /\ ThisPass.err # ""
    /\ wloop' = [wloop EXCEPT !.variables = ThisPass.variables,
                              !.queues = ThisPass.queues,
                              !.iterations = ThisPass.iterations,
                              !.state = ThisPass.err]
    /\ UNCHANGED not_while

NextWhile ==
    \/ ExecWhileCall
    \/ WhileBodyPass
    \/ WhileExit
    \/ WhileRaise

SpecWhile == Init /\ [][NextWhile]_vars

\* a loop that is entered makes its next pass
SpecWhileFair == SpecWhile /\ WF_vars(NextWhile)

-----------------------------------------------------------------------------
(* _merge_frames called on its own *)

\* the frames handed to _merge_frames: every combination of pressed buttons,
\* stick positions and trigger amounts below (1 stands for 1.0)
Frames ==
    { InputFrame(b, m, c, l, r) :
        b \in SUBSET {"A", "B"},
        m \in { <<0, 0>>, <<1, 0>>, <<0, -1>> },
        c \in { <<0, 0>>, <<1, 0>> },
        l \in {0, 1},
        r \in {0, 1} }

\* one call per behaviour: a call depends on no earlier call
MergeCall ==
    /\ merge.calls = 0
    /\ \E base \in Frames : \E overlay \in Frames :
          merge' = [calls |-> 1, base |-> base, overlay |-> overlay,
                    merged |-> MergeFrames(base, overlay)]
    /\ UNCHANGED not_merge

NextMerge == MergeCall

SpecMerge == Init /\ [][NextMerge]_vars

-----------------------------------------------------------------------------
(* Properties of the scheduler *)

IsStep == last_call'.name = "step"

\* the frames a queue of Actions still has to emit, from the cursor on
RECURSIVE AllFrames(_)
AllFrames(q) == IF q = <<>> THEN <<>> ELSE Head(q).frames \o AllFrames(Tail(q))

Remaining(q, c) ==
    IF q = <<>> THEN <<>>
    ELSE SubSeq(Head(q).frames, c + 1, Len(Head(q).frames)) \o AllFrames(Tail(q))

OnlyActions(q) ==
    \A i \in 1..Len(q) : q[i].type = "Action" /\ Len(q[i].frames) >= 1

\* q1 is q0 with its first k items removed
DroppedFrom(q0, q1, k) ==
    /\ Len(q0) >= k
    /\ q1 = SubSeq(q0, k + 1, Len(q0))

\* C1: a Barrier evaluated against a snapshot holding its port resolves only if an
\* earlier tick showed it its condition false; when the first snapshot it is shown
\* already meets the condition, that tick emits neutral and the Barrier stays at the head.
C1_FreshEdge ==
    [][IsStep =>
        \A p \in DOMAIN queues :
            (HeadKind(queues[p]) = "Barrier" /\ tick'[p].obs \in {"met", "unmet"}) =>
                /\ Len(queues'[p]) < Len(queues[p]) => hist[p].seen_false
                /\ (~hist[p].evaluated /\ tick'[p].obs = "met") =>
                      /\ result'[p] = NEUTRAL
                      /\ Len(queues'[p]) = Len(queues[p])
                      /\ HeadKind(queues'[p]) = "Barrier"
                      /\ queues'[p][1].condition = queues[p][1].condition]_vars

C1_Witness ==
    \E p \in DOMAIN queues :
        /\ last_call.name = "step"
        /\ tick[p] = [head |-> "Barrier", obs |-> "met", popped |-> 0]
        /\ hist[p].evaluated /\ ~hist[p].seen_false
        /\ HeadKind(queues[p]) = "Barrier"
        /\ result[p] = NEUTRAL

\* C2: a queue of Actions with at least one frame each is emitted frame by frame, in
\* queue order, one frame per tick whatever the snapshot, with nothing skipped, repeated
\* or separated by a neutral tick; the port is idle right after the last frame, and
\* neutral is emitted from then on.
C2_StraightLine ==
    [][IsStep =>
        \A p \in DOMAIN queues :
            OnlyActions(queues[p]) =>
                LET rem == Remaining(queues[p], cursors[p])
                IN  IF rem = <<>>
                    THEN result'[p] = NEUTRAL /\ queues'[p] = <<>>
                    ELSE /\ result'[p] = Head(rem)
                         /\ OnlyActions(queues'[p])
                         /\ Remaining(queues'[p], cursors'[p]) = Tail(rem)
                         /\ IsIdle(queues', p) <=> (Tail(rem) = <<>>)]_vars

C2_Witness ==
    \E p \in DOMAIN queues :
        /\ last_call.name = "step"
        /\ tick[p] = [head |-> "Action", obs |-> "n/a", popped |-> 1]
        /\ result[p] = FrameB
        /\ IsIdle(queues, p)

\* C3: on the tick a head Barrier resolves, a following Action with at least one frame
\* emits its frames[0] in that same tick; the Barrier is gone and the Action is one frame
\* further (cursor 1, or popped when it had a single frame).
C3_NoGap ==
    [][IsStep =>
        \A p \in DOMAIN queues :
            ( /\ HeadKind(queues[p]) = "Barrier"
              /\ Len(queues'[p]) < Len(queues[p])
              /\ Len(queues[p]) >= 2
              /\ queues[p][2].type = "Action"
              /\ Len(queues[p][2].frames) >= 1 ) =>
                /\ result'[p] = queues[p][2].frames[1]
                /\ IF Len(queues[p][2].frames) = 1
                   THEN DroppedFrom(queues[p], queues'[p], 2) /\ cursors'[p] = 0
                   ELSE DroppedFrom(queues[p], queues'[p], 1) /\ cursors'[p] = 1]_vars

C3_Witness ==
    \E p \in DOMAIN queues :
        /\ last_call.name = "step"
        /\ tick[p] = [head |-> "Barrier", obs |-> "met", popped |-> 2]
        /\ result[p] = FrameA
        /\ cursors[p] = 0

\* C4: a tick without a snapshot, or whose snapshot has no entry for the port, leaves a
\* head Barrier where it is: neutral is emitted and the queue (the Barrier's bit
\* included) and the cursor are unchanged.
C4_MissingState ==
    [][IsStep =>
        \A p \in DOMAIN queues :
            (HeadKind(queues[p]) = "Barrier" /\ tick'[p].obs \in {"none", "absent"}) =>
                /\ result'[p] = NEUTRAL
                /\ queues'[p] = queues[p]
                /\ cursors'[p] = cursors[p]]_vars

C4_Witness ==
    \E p \in DOMAIN queues :
        /\ last_call.name = "step"
        /\ tick[p] = [head |-> "Barrier", obs |-> "absent", popped |-> 0]
        /\ HeadKind(queues[p]) = "Barrier"
        /\ ~queues[p][1].seen_exit
        /\ result[p] = NEUTRAL

\* C5: two schedulers with the same queues, cursors and Barrier bits, given the same
\* calls, return the same mappings and stay in the same state.
C5_Determinism ==
    twin.active =>
        /\ twin.queues = queues
        /\ twin.cursors = cursors
        /\ twin.result = result

C5_Witness ==
    /\ twin.active
    /\ twin.order # order
    /\ last_call.name = "step"
    /\ \A p \in Ports : p \in DOMAIN result /\ result[p] # NEUTRAL

\* the scheduler state and the snapshot as port p alone sees them
OnlyPort(f, p) == [x \in {p} |-> f[x]]

OnlyPlayer(gs, p) ==
    IF gs.is_none THEN gs
    ELSE [gs EXCEPT !.players = [x \in {p} \cap DOMAIN gs.players |-> gs.players[x]]]

\* C6: what a step does to port p (frame emitted, queue, cursor, Barrier bits) is what
\* a scheduler holding p alone would do given p's entry of the snapshot, in whatever
\* order the ports are processed; stepping p leaves every other port as it was.
C6_PortIndependence ==
    \A gs \in GameStates : \A keys \in KeyOrders(order) : \A p \in DOMAIN queues :
        LET all == SchedulerStep(queues, cursors, keys, gs)
            alone == SchedulerStep(OnlyPort(queues, p), OnlyPort(cursors, p), <<p>>,
                                   OnlyPlayer(gs, p))
            one == StepPort(queues, cursors, p, gs)
        IN  /\ all.result[p] = alone.result[p]
            /\ all.queues[p] = alone.queues[p]
            /\ all.cursors[p] = alone.cursors[p]
            /\ \A q \in DOMAIN queues \ {p} :
                  one.queues[q] = queues[q] /\ one.cursors[q] = cursors[q]

C6_Witness ==
    /\ last_call.name = "step"
    /\ DOMAIN queues = Ports
    /\ \E p, q \in Ports :
          /\ tick[p].head = "Barrier" /\ tick[p].obs = "unmet"
          /\ tick[q].head = "Action" /\ result[q] = FrameA

CursorInRange ==
    \A p \in DOMAIN queues :
        /\ HeadKind(queues[p]) = "Action" =>
              0 <= cursors[p] /\ cursors[p] <= Len(queues[p][1].frames)
        /\ HeadKind(queues[p]) # "Action" => cursors[p] = 0

\* C7 as claimed: the cursor is within the head Action, 0 with no head Action, and 0
\* right after every step that pops the head item.
C7_Original ==
    /\ CursorInRange
    /\ \A p \in DOMAIN queues :
          (last_call.name = "step" /\ tick[p].popped >= 1) => cursors[p] = 0

\* C7, amended: the cursor is within the head Action, 0 with no head Action, and 0
\* right after every step that pops the head item, except the step in which a Barrier
\* resolves in front of an Action of two or more frames: that step emits the Action's
\* first frame and leaves the cursor at 1.
C7_Cursor ==
    /\ CursorInRange
    /\ \A p \in DOMAIN queues :
          (last_call.name = "step" /\ tick[p].popped >= 1) =>
              \/ cursors[p] = 0
              \/ /\ tick[p].head = "Barrier" /\ tick[p].popped = 1
                 /\ HeadKind(queues[p]) = "Action"
                 /\ Len(queues[p][1].frames) >= 2
                 /\ cursors[p] = 1
                 /\ result[p] = queues[p][1].frames[1]

C7_Witness ==
    \E p \in DOMAIN queues :
        /\ last_call.name = "step"
        /\ tick[p].head = "Barrier" /\ tick[p].popped = 1
        /\ HeadKind(queues[p]) = "Action"
        /\ cursors[p] = 1

\* C8: is_idle holds exactly of unknown ports and empty queues; a step emits neutral
\* for a registered port with an empty queue and leaves its queue and cursor alone;
\* and the mapping a step returns has exactly the registered ports as keys.
C8_Idle ==
    [][ /\ \A p \in Ports :
              IsIdle(queues', p) <=> (p \notin DOMAIN queues' \/ queues'[p] = <<>>)
        /\ IsStep =>
              /\ DOMAIN result' = DOMAIN queues
              /\ DOMAIN queues' = DOMAIN queues
              /\ \A p \in DOMAIN queues :
                    queues[p] = <<>> =>
                        /\ result'[p] = NEUTRAL
                        /\ queues'[p] = <<>>
                        /\ cursors'[p] = cursors[p]]_vars

C8_Witness ==
    /\ last_call.name = "step"
    /\ DOMAIN queues = Ports
    /\ \E p, q \in Ports :
          /\ tick[p].head = "none" /\ result[p] = NEUTRAL /\ IsIdle(queues, p)
          /\ result[q] = FrameA /\ ~IsIdle(queues, q)

\* C9: push appends the one item at the tail, creating an empty queue with cursor 0
\* for an unknown port; the items already queued, the cursor and the other ports are
\* unchanged and the port is not idle afterwards. A step removes items from the head
\* only (one, or a resolved Barrier and the Action behind it) and emits frames of
\* those items only, so a pushed item waits for everything before it.
C9_Push ==
    [][ /\ last_call'.name = "push" =>
              LET p == last_call'.port
                  old == IF p \in DOMAIN queues THEN queues[p] ELSE <<>>
              IN  /\ \E item \in Items : queues'[p] = Append(old, item)
                  /\ cursors'[p] = IF p \in DOMAIN queues THEN cursors[p] ELSE 0
                  /\ DOMAIN queues' = DOMAIN queues \cup {p}
                  /\ DOMAIN cursors' = DOMAIN queues'
                  /\ \A q \in DOMAIN queues \ {p} :
                        queues'[q] = queues[q] /\ cursors'[q] = cursors[q]
                  /\ ~IsIdle(queues', p)
        /\ IsStep =>
              \A p \in DOMAIN queues :
                  LET n == Len(queues[p])
                      k == n - Len(queues'[p])
                      reach == IF HeadKind(queues[p]) = "Barrier" THEN 2 ELSE 1
                  IN  /\ 0 <= k /\ k <= reach
                      /\ \A i \in (reach + 1)..n : queues'[p][i - k] = queues[p][i]
                      /\ \/ result'[p] = NEUTRAL
                         \/ \E i \in 1..reach :
                               /\ i <= n /\ queues[p][i].type = "Action"
                               /\ \E j \in 1..Len(queues[p][i].frames) :
                                     result'[p] = queues[p][i].frames[j]]_vars

C9_Witness ==
    \E p \in DOMAIN queues :
        /\ last_call = [name |-> "push", port |-> p]
        /\ cursors[p] = 1
        /\ Len(queues[p]) = 2
        /\ queues[p][2].type = "Barrier"

-----------------------------------------------------------------------------
(* Properties of the chain compiler *)

\* the loop has just consumed the first three segments X :: hold N :: Y
AfterThree ==
    /\ cstate \in {"running", "returned"}
    /\ seg_i = 3
    /\ chain[2].kind = "HoldSegment"

HoldN == IntOf(EvalExpr(chain[2].duration, block_vars, ctx_queues).val)

\* what X and Y compile to on their own
XAlone == CompileChain(<<chain[1]>>, block_vars, ChainPort, ctx_queues)
YAlone == CompileChain(<<chain[3]>>, block_vars, ChainPort, ctx_queues)

Front(s) == SubSeq(s, 1, Len(s) - 1)

\* the frame Y lays over the held Action: the first frame of its first Action
Overlay == IF YAlone.output[1].frames # <<>> THEN YAlone.output[1].frames[1] ELSE NEUTRAL

\* X produced items of which the last is an Action with at least one frame
XEndsInAction ==
    /\ XAlone.err = ""
    /\ XAlone.output # <<>>
    /\ Last(XAlone.output).type = "Action"
    /\ Last(XAlone.output).frames # <<>>

YStartsWithAction ==
    /\ YAlone.err = ""
    /\ YAlone.output # <<>>
    /\ YAlone.output[1].type = "Action"

\* the held Action after layering: its first frame is kept, every later frame
\* of X's Action and every held copy of its last frame carries the overlay
Layered(xf, n, ov) ==
    [j \in 1..(Len(xf) + n) |->
        IF j = 1 THEN xf[1]
        ELSE IF j <= Len(xf) THEN MergeFrames(xf[j], ov)
        ELSE MergeFrames(xf[Len(xf)], ov)]

\* C10 as stated: for every chain X :: hold N :: Y (N >= 1) where X compiles to
\* an Action with at least one frame and the first item Y produces is an
\* Action, the output Action has frame 0 equal to the pre-hold frame (the last
\* frame of X's Action), frames 1..N equal to merge(pre-hold frame, first
\* frame of Y), and Y is not appended as an item of its own.  (Read here with
\* Y an action segment whose first Action has a frame.)
C10_Original ==
    ( /\ AfterThree
      /\ HoldN >= 1
      /\ XEndsInAction
      /\ Len(XAlone.output) = 1
      /\ chain[3].kind = "ActionSegment"
      /\ YStartsWithAction
      /\ YAlone.output[1].frames # <<>> )
    => LET pre == Last(XAlone.output[1].frames)
           ov == YAlone.output[1].frames[1]
       IN  /\ Len(output) = 1
           /\ output[1].type = "Action"
           /\ Len(output[1].frames) >= HoldN + 1
           /\ output[1].frames[1] = pre
           /\ \A j \in 2..(HoldN + 1) : output[1].frames[j] = MergeFrames(pre, ov)

\* C10 (amended): for every chain X :: hold N :: Y (N >= 1) where X's last
\* produced item is an Action of k >= 1 frames and Y is an action segment whose
\* first produced item is an Action, that Action of X is replaced by one Action
\* of k + N frames: frame 0 is X's first frame unchanged, frames 1..k-1 are
\* X's frames merged with the overlay, frames k..k+N-1 are merge(pre-hold
\* frame, overlay); no item of Y is appended and hold_active is cleared.  When
\* Y is a wait segment nothing is layered: the held Action stays as it is and
\* Y's item is appended after it.
C10_HoldLayering ==
    (AfterThree /\ HoldN >= 1 /\ XEndsInAction /\ YStartsWithAction)
    => LET xf == Last(XAlone.output).frames
           held == [j \in 1..(Len(xf) + HoldN) |->
                       IF j <= Len(xf) THEN xf[j] ELSE xf[Len(xf)]]
       IN  /\ chain[3].kind = "ActionSegment" =>
                /\ output = Append(Front(XAlone.output), Action(Layered(xf, HoldN, Overlay)))
                /\ ~hold_active
           /\ chain[3].kind = "WaitSegment" =>
                output = Append(Front(XAlone.output), Action(held)) \o YAlone.output

\* a def of two frames, held and then overlaid with a stick action, has been compiled
C10_Witness ==
    /\ AfterThree
    /\ HoldN >= 1
    /\ XEndsInAction
    /\ YStartsWithAction
    /\ chain[3].kind = "ActionSegment"
    /\ Len(Last(XAlone.output).frames) >= 2
    /\ Overlay # NEUTRAL
    /\ Last(output).frames[1] # Last(Last(XAlone.output).frames)

\* the loop is about to run for a WaitSegment, and the step is that iteration
WaitIterated == AtSegment("WaitSegment") /\ seg_i' = seg_i + 1

\* what the WaitSegment's expression evaluates to
WaitValue == EvalExpr(chain[seg_i + 1].condition, block_vars, ctx_queues)

\* C11: a WaitSegment whose expression evaluates to an integer N >= 0 appends
\* exactly one Action of exactly N neutral frames; one that evaluates to act,
\* ground or apex appends exactly one new Barrier with that condition whose
\* edge bit is false.  Nothing else of the output changes and no error is raised.
C11_WaitCompilation ==
    [][WaitIterated /\ WaitValue.err = "" =>
          LET val == WaitValue.val
          IN  /\ (val.t = "int" /\ val.int >= 0) =>
                    /\ cstate' = "running"
                    /\ Len(output') = Len(output) + 1
                    /\ SubSeq(output', 1, Len(output)) = output
                    /\ Last(output').type = "Action"
                    /\ Len(Last(output').frames) = val.int
                    /\ \A k \in 1..val.int : Last(output').frames[k] = NEUTRAL
              /\ (val.t = "str" /\ val.str \in {"act", "ground", "apex"}) =>
                    /\ cstate' = "running"
                    /\ output' = Append(output, [type |-> "Barrier", condition |-> val.str,
                                                 seen_exit |-> FALSE])]_vars

\* `... :: wait 0 :: wait ground` has been compiled: an empty Action, then a Barrier
C11_Witness ==
    /\ cstate = "running"
    /\ seg_i >= 2
    /\ chain[seg_i - 1] = WaitSegment(IntegerLiteral(0))
    /\ chain[seg_i] = WaitSegment(Identifier("ground"))
    /\ Len(output) >= 2
    /\ output[Len(output) - 1] = Action(<<>>)
    /\ Last(output) = Barrier("ground")

\* C12: a WaitSegment whose expression evaluates to a value that is neither an
\* integer nor one of the strings act, ground, apex (a boolean, a float,
\* another string, a list of IR items) makes compilation fail with
\* CompilerError, and appends no Action or Barrier.
C12_InvalidWait ==
    [][WaitIterated /\ WaitValue.err = "" =>
          LET val == WaitValue.val
          IN  (/\ val.t # "int"
               /\ ~(val.t = "str" /\ val.str \in {"act", "ground", "apex"})) =>
                  /\ cstate' = "CompilerError"
                  /\ output' = output]_vars

-----------------------------------------------------------------------------
(* Properties of _merge_frames *)

\* C13: the neutral frame is a right identity of the merge: for every base,
\* _merge_frames(base, InputFrame()) equals base in buttons, main stick,
\* c-stick and both triggers.
C13_NeutralOverlay ==
    (merge.calls > 0 /\ merge.overlay = NEUTRAL) =>
        /\ merge.merged.buttons = merge.base.buttons
        /\ merge.merged.main_stick = merge.base.main_stick
        /\ merge.merged.c_stick = merge.base.c_stick
        /\ merge.merged.l_trigger = merge.base.l_trigger
        /\ merge.merged.r_trigger = merge.base.r_trigger

\* the neutral frame has been merged onto a base that is default in no field
C13_Witness ==
    /\ merge.calls > 0
    /\ merge.overlay = NEUTRAL
    /\ merge.base.buttons = {"A", "B"}
    /\ merge.base.main_stick # <<0, 0>>
    /\ merge.base.c_stick # <<0, 0>>
    /\ merge.base.l_trigger # 0
    /\ merge.base.r_trigger # 0
    /\ merge.merged = merge.base

-----------------------------------------------------------------------------
(* Properties of compile_match *)

\* the statement a step of the block's loop has just executed
StatementStepped == InBlock /\ stmt_i' = stmt_i + 1

\* the three ways a def is invoked: as the only segment of a player action's
\* chain, as a call statement, as the call expression of a let
InvokedAs(stmt) ==
    CASE stmt.stmt = "PlayerAction" /\ Len(stmt.chain) = 1
           /\ stmt.chain[1].kind = "ActionSegment" -> "segment"
      [] stmt.stmt = "CallStatement" -> "statement"
      [] stmt.stmt = "LetStatement" /\ stmt.value.expr = "CallExpr" -> "expression"
      [] OTHER -> "none"

Invoked(stmt) ==
    CASE InvokedAs(stmt) = "segment" -> stmt.chain[1]
      [] InvokedAs(stmt) = "statement" -> stmt
      [] InvokedAs(stmt) = "expression" -> stmt.value

\* the defs of the program with this name and exactly k parameters
WithParams(name, k) ==
    { d \in { MatchDefs[j] : j \in 1..Len(MatchDefs) } : d.name = name /\ Len(d.params) = k }

Overloaded(name) ==
    \E d1, d2 \in { MatchDefs[j] : j \in 1..Len(MatchDefs) } :
        d1.name = name /\ d2.name = name /\ Len(d1.params) # Len(d2.params)

\* C14: when a statement of a Static block invokes an overloaded name with k
\* arguments, as a chain segment, a call statement or a call expression, the
\* step does what the body of the def with exactly k parameters does: as a
\* segment the items of that body join the queue of the statement's port, as
\* a statement or an expression the body runs with queue appending enabled
\* (and the let binds the list of its items); when no def and no builtin has
\* that name and k, the step raises CompilerError.
C14_ArityOverload ==
    [][ (StatementStepped /\ InvokedAs(CurrentStatement) # "none"
           /\ Overloaded(Invoked(CurrentStatement).name))
        => LET stmt == CurrentStatement
               form == InvokedAs(stmt)
               call == Invoked(stmt)
               k == Len(call.args)
               vals == EvalArgs(call.args, blk_vars, ctx_queues).vals
           IN  IF WithParams(call.name, k) # {}
               THEN \E d \in WithParams(call.name, k) :
                      /\ mstate' = "running"
                      /\ form = "segment" =>
                           LET p == PortNumber(stmt.player)
                               r == ExecDef(d, vals, blk_vars, p, FALSE, ctx_queues)
                           IN  ctx_queues' = QueueExtend(r.queues, p, r.items)
                      /\ form = "statement" =>
                           ctx_queues' = ExecDef(d, vals, blk_vars, 0, TRUE, ctx_queues).queues
                      /\ form = "expression" =>
                           LET r == ExecDef(d, vals, blk_vars, 0, TRUE, ctx_queues)
                           IN  /\ ctx_queues' = r.queues
                               /\ blk_vars'[stmt.name] = ListV(r.items)
               ELSE <<call.name, k>> \notin BUILTINS => mstate' = "CompilerError" ]_vars

\* bar(B) has been called as an expression from the first statement of block
\* a: the body of the one-parameter bar has pressed B on port 1
C14_Witness ==
    /\ mstate = "running"
    /\ blk_i = 0
    /\ stmt_i = 1
    /\ match.static_blocks[1].statements[1] = LetStatement("v", CallExpr("bar", <<Identifier("B")>>))
    /\ 1 \in DOMAIN ctx_queues
    /\ ctx_queues[1] = << Action(<< InputFrame({"B"}, <<0, 0>>, <<0, 0>>, 0, 0) >>) >>
    /\ "v" \in DOMAIN blk_vars

\* C15: the mapping compile_match returns has an entry for every port
\* declared Static in Game.players (the empty list when no statement has
\* produced an item for it) and no entry for a port declared Human.
C15_StaticQueuesOnly ==
    mstate = "returned"
    => /\ \A p \in StaticPorts(match) : p \in DOMAIN ctx_queues
       /\ \A p \in HumanPorts(match) : p \notin DOMAIN ctx_queues

-----------------------------------------------------------------------------
(* Properties of #INCLUDE handling *)

\* the files the directives of file f name
IncludesOf(fs, f) == UNION { { fs[f][k][j] : j \in 1..Len(fs[f][k]) } : k \in 1..Len(fs[f]) }

\* the files reached from the files of S by one or more directives
RECURSIVE ReachedFrom(_, _)
ReachedFrom(fs, S) ==
    LET more == S \cup UNION { IncludesOf(fs, f) : f \in S }
    IN  IF more = S THEN UNION { IncludesOf(fs, f) : f \in S }
        ELSE ReachedFrom(fs, more)

Occurrences(seq, x) == Cardinality({ k \in 1..Len(seq) : seq[k] = x })

Cyclic(fs) ==
    \E f \in {"main"} \cup ReachedFrom(fs, {"main"}) : f \in ReachedFrom(fs, {f})

\* C17: a step of #INCLUDE handling that comes to a file which is on the
\* in-progress stack ends the parse with ParseError (the file is not skipped
\* as already visited); so parse returns no Match for a program whose
\* includes form a cycle: whenever the directives reachable from the main
\* file lead from a file back to itself, the parse does not return.
C17_CycleRejected ==
    /\ [](inc.state = "returned" => ~Cyclic(inc.fs))
    /\ [][ (AtDirective /\ FilePath \in inc.stack) => inc'.state = "ParseError" ]_vars

\* A includes B and B includes A: the parse of main, which includes A, has
\* failed
C17_Witness ==
    /\ inc.state = "ParseError"
    /\ inc.fs["main"] = << <<"a">> >>
    /\ inc.fs["a"] = << <<"b">> >>
    /\ inc.fs["b"] = << <<"a">> >>

-----------------------------------------------------------------------------
(* Properties of Parser.parse *)

\* the token types _parse_statement has a branch for
StartsStatement(type) == type \in {"LET", "IF", "WHILE", "PLAYER", "WAIT", "HOLD", "IDENTIFIER"}

\* C18: parse ends in a Match or in ParseError at the first malformed
\* construct: a pass of the statement-list loop of a Static body that finds
\* a token which neither starts a statement nor ends the list raises
\* ParseError, and no pass of the loop leaves the parser where it was.
C18_BodyRejected ==
    [][ (prs.state = "running" /\ prs.loop = "statements"
           /\ ~StartsStatement(Current(prs.tokens, prs.pos).type)
           /\ Current(prs.tokens, prs.pos).type \notin {"RBRACE", "EOF"})
        => (prs'.state = "ParseError" /\ prs'.stalled = 0) ]_vars

\* the Game sections of the source
GameSections(tokens) == Cardinality({ k \in 1..Len(tokens) : tokens[k].type = "GAME" })

\* C19: a source with a second Game section is refused, in two Match blocks
\* or in one: a parse that returns a Match comes from a source with at most
\* one Game section.
C19_SingleGame ==
    prs.state = "returned" => GameSections(prs.tokens) <= 1

-----------------------------------------------------------------------------
(* Properties of the static-player validation *)

\* a PlayerAction of the statements, or of an if, else or while body inside
\* them at any depth, names the player explicitly
RECURSIVE TargetsPlayer(_, _)
TargetsPlayer(statements, player) ==
    \E k \in 1..Len(statements) :
        LET stmt == statements[k]
        IN  \/ stmt.stmt = "PlayerAction" /\ stmt.player = player
            \/ stmt.stmt = "IfStatement"
                 /\ (TargetsPlayer(stmt.then_body, player) \/ TargetsPlayer(stmt.else_body, player))
            \/ stmt.stmt = "WhileStatement" /\ TargetsPlayer(stmt.body, player)

\* a port declared Static is targeted from two different Static blocks
SharedStaticPort(ast) ==
    \E k \in 1..Len(ast.players) :
        /\ ast.players[k].player_type = "Static"
        /\ \E i, j \in 1..Len(ast.static_blocks) :
              /\ i # j
              /\ TargetsPlayer(ast.static_blocks[i].statements, ast.players[k].port)
              /\ TargetsPlayer(ast.static_blocks[j].statements, ast.players[k].port)

\* C20: the validation ends with ParseError exactly when some port declared
\* Static is the explicit target of PlayerAction statements, directly or
\* inside if, else or while bodies, in two different Static blocks; it
\* accepts every other program, calls of defs that target the port included.
C20_StaticOwnership ==
    /\ validation.state = "ParseError" => SharedStaticPort(validation.ast)
    /\ validation.state = "returned" => ~SharedStaticPort(validation.ast)

\* P1 is targeted directly in block a and from a while inside an else in
\* block c, with a call of bar in between: the program has been refused
C20_Witness ==
    /\ validation.state = "ParseError"
    /\ Len(validation.ast.static_blocks) = 3
    /\ validation.ast.static_blocks[1].statements
         = << PlayerAction("P1", << ActionSegment("button", <<Identifier("A")>>) >>) >>
    /\ validation.ast.static_blocks[2].statements = << CallStatement("bar", <<>>) >>
    /\ validation.ast.static_blocks[3].statements
         = << IfStatement(BoolLiteral(TRUE), <<>>,
                          << WhileStatement(BoolLiteral(TRUE),
                               << PlayerAction("P1", << ActionSegment("button",
                                                          <<Identifier("A")>>) >>) >>) >>) >>

-----------------------------------------------------------------------------
(* Properties of the while loop *)

\* how often the body has run: the body counts its runs in c
BodyRuns == wloop.variables["c"].int

\* the loop under way is `while (i < limit)` with a body that raises nothing
QuietCount ==
    /\ wloop.state # "idle"
    /\ wloop.stmt.condition.expr = "BinaryOp"
    /\ wloop.stmt.condition.left = Identifier("i")
    /\ \A k \in 1..Len(wloop.stmt.body) : wloop.stmt.body[k].stmt # "PlayerAction"
                                           \/ wloop.stmt.body[k].chain[1].name # "nope"

\* the limit of that loop: with i = 0 at first and `i = i + 1` in the body,
\* the condition fails after that many passes
LoopLimit == wloop.stmt.condition.right.int

\* the condition of the loop under way holds however often the body runs
AlwaysTrue ==
    /\ wloop.state # "idle"
    /\ wloop.stmt.condition \in {BoolLiteral(TRUE), Identifier("n")}

\* C21: a while loop whose body terminates always terminates: when the
\* condition fails after k <= 10,000 passes the body has run exactly k times
\* and compilation goes on; when the condition still holds after 10,000
\* passes compilation fails with CompilerError; the body never runs a
\* 10,001st time
C21_WhileTerminates ==
    /\ [](wloop.state # "idle" => BodyRuns <= MAX_ITERATIONS)
    /\ [](QuietCount /\ LoopLimit <= MAX_ITERATIONS =>
            /\ wloop.state \in {"running", "done"}
            /\ wloop.state = "done" => BodyRuns = LoopLimit)
    /\ [](AlwaysTrue \/ (QuietCount /\ LoopLimit > MAX_ITERATIONS) =>
            /\ wloop.state \in {"running", "CompilerError"}
            /\ wloop.state = "CompilerError" => BodyRuns = MAX_ITERATIONS)
    /\ <>(wloop.state \notin {"idle", "running"})

\* a loop whose condition still holds after 10,000 passes has failed
C21_Witness ==
    /\ QuietCount
    /\ LoopLimit = MAX_ITERATIONS + 1
    /\ wloop.state = "CompilerError"
    /\ BodyRuns = MAX_ITERATIONS

-----------------------------------------------------------------------------
(* Properties of _parse_game *)

\* Match { GAME_HEADER Static s { foo } }
HeaderProgram ==
    Tokenize(<< << GAME_HEADER,
                   << Tok("STATIC"), Token("IDENTIFIER", "s"), Tok("LBRACE"),
                      Token("IDENTIFIER", "foo"), Tok("RBRACE") >> >> >>, 0)

\* C22: a Game body with `Stocks <int>` and `Time <int>` entries after its
\* Stage and Players entries parses: the parser raises no ParseError on the
\* program made of that Game section and a Static block
C22_GameSettings ==
    prs.tokens = HeaderProgram => prs.state # "ParseError"

-----------------------------------------------------------------------------
(* Further properties of Scheduler.step *)

\* C23: a step that finds an Action without frames at the head of a port's
\* queue pops it, leaves the cursor at 0 and emits neutral for the port; the
\* item behind it is left as it was, to begin on the next tick
C23_EmptyAction ==
    [][IsStep =>
        \A p \in DOMAIN queues :
            (HeadKind(queues[p]) = "Action" /\ queues[p][1].frames = <<>>) =>
                /\ result'[p] = NEUTRAL
                /\ queues'[p] = Tail(queues[p])
                /\ cursors'[p] = 0]_vars

C23_Witness ==
    \E p \in DOMAIN queues :
        /\ last_call.name = "step"
        /\ tick[p] = [head |-> "Action", obs |-> "n/a", popped |-> 1]
        /\ result[p] = NEUTRAL
        /\ queues[p] = << Action(<<FrameA>>) >>
        /\ cursors[p] = 0

BarrierCount(q) == Cardinality({ k \in 1..Len(q) : q[k].type = "Barrier" })

C25_SecondPhase ==
    [][IsStep =>
        \A p \in DOMAIN queues :
            HeadKind(queues[p]) = "Barrier" =>
                /\ queues[p][1].seen_exit =>
                      (Len(queues'[p]) < Len(queues[p]) <=> tick'[p].obs = "met")
                /\ (~queues[p][1].seen_exit /\ tick'[p].obs = "unmet") =>
                      /\ queues'[p] = [queues[p] EXCEPT ![1].seen_exit = TRUE]
                      /\ result'[p] = NEUTRAL]_vars

C25_Witness ==
    \E p \in DOMAIN queues :
        /\ last_call.name = "step"
        /\ tick[p] = [head |-> "Barrier", obs |-> "met", popped |-> 1]
        /\ hist[p] = FreshHist
        /\ IsIdle(queues, p)
        /\ result[p] = NEUTRAL

-----------------------------------------------------------------------------
(* Further properties of compile_chain *)

\* the loop is about to run for a segment of the kind, and the step is that iteration
SegmentIterated(kind) == AtSegment(kind) /\ seg_i' = seg_i + 1

\* what _resolve_action makes of the ActionSegment the loop is at
Resolved == ResolveAction(chain[seg_i + 1], block_vars, ChainPort, ctx_queues)

\* the output holds nothing a hold could extend: no item, a Barrier at the
\* end, or an Action without frames at the end
NothingToExtend ==
    \/ output = <<>>
    \/ Last(output).type = "Barrier"
    \/ Last(output).type = "Action" /\ Last(output).frames = <<>>

\* C26: a hold with nothing to extend adds no frame and raises nothing, it
\* only sets hold_active; an ActionSegment right after such a hold is compiled
\* without error and its items are appended to the output
C26_InertHold ==
    [][ /\ ( /\ SegmentIterated("HoldSegment")
             /\ NothingToExtend
             /\ IsInt(EvalExpr(chain[seg_i + 1].duration, block_vars, ctx_queues).val) ) =>
                /\ cstate' = "running"
                /\ output' = output
                /\ hold_active'
        /\ ( /\ SegmentIterated("ActionSegment")
             /\ hold_active
             /\ NothingToExtend
             /\ Resolved.err = "" ) =>
                /\ cstate' = "running"
                /\ output' = output \o Resolved.items ]_vars

\* the segment before the one the loop is at is no hold
NotAfterHold == seg_i = 0 \/ chain[seg_i].kind # "HoldSegment"

\* C30: an ActionSegment is layered only right after a HoldSegment: after
\* any other segment, or at the start of the chain, hold_active is clear and
\* the items of the ActionSegment are appended after the output so far, which
\* stays as it is; so in X :: hold N :: wait M :: Y the item of Y follows the
\* wait's item and changes no frame of X or of the wait
C30_LayerOnlyAfterHold ==
    /\ [](cstate = "running" /\ NotAfterHold => ~hold_active)
    /\ [][ (SegmentIterated("ActionSegment") /\ NotAfterHold /\ Resolved.err = "") =>
              /\ cstate' = "running"
              /\ output' = output \o Resolved.items ]_vars

\* button(A) :: hold 1 :: wait 1 :: button(B) has been compiled
C30_Witness ==
    /\ cstate = "returned"
    /\ chain \in HeldThenWaited
    /\ output = << Action(<<FrameA, FrameA>>), Action(<<NEUTRAL>>), Action(<<FrameB>>) >>

-----------------------------------------------------------------------------
(* Properties of the Barrier bit under load *)

\* the seen_exit bits of q1, whose first item was item number gone + 1 of q0,
\* are set wherever they were set in q0
BitsKept(q0, q1, gone) ==
    \A k \in 1..Len(q1) :
        (k + gone <= Len(q0) /\ q0[k + gone].type = "Barrier" /\ q0[k + gone].seen_exit)
            => (q1[k].type = "Barrier" /\ q1[k].seen_exit)

\* a scheduler operation keeps the bits that are set
BitsSurvive ==
    /\ (last_call'.name \in {"step", "push"}) =>
            (\A p \in DOMAIN queues :
                BitsKept(queues[p], queues'[p],
                         IF Len(queues'[p]) < Len(queues[p])
                         THEN Len(queues[p]) - Len(queues'[p]) ELSE 0))
    /\ (last_call'.name # "load") => BitsKept(caller.list, caller'.list, 0)
    /\ (last_call'.name = "reload") => (queues'[caller.port] = caller.list)

\* C28: no scheduler operation changes the seen_exit bit of a Barrier from
\* true back to false: a step and a push keep the bits set in the queues, a
\* step, a push and a load of the same list keep the bits set in the list the
\* caller holds, and a load hands the Barrier objects of the list to the
\* queue with their bits as they are. So a Barrier that has seen its
\* condition false and is loaded again resolves on the first tick that shows
\* its condition true.
C28_BitMonotonic == [][BitsSurvive]_vars /\ [](caller.again # "missed")

C28_Witness ==
    /\ caller.again = "resolved"
    /\ last_call.name = "step"
    /\ tick[caller.port].head = "Barrier"
    /\ tick[caller.port].obs = "met"
    /\ tick[caller.port].popped > 0

-----------------------------------------------------------------------------
(* Properties of _exec_def *)

\* the statement invokes the def: as a call statement, or as the one segment
\* of a chain of P1
Invokes(stmt, name, args) ==
    \/ stmt = CallStatement(name, args)
    \/ stmt = PlayerAction("P1", << ActionSegment(name, args) >>)

\* the pass of the loop over the current statement of the Static block
\* leaves the block's scope alone and gives port 1 a wait of that many frames
Waits(frames) ==
    /\ blk_vars' = blk_vars
    /\ mstate' = "running"
    /\ ctx_queues' = [ctx_queues EXCEPT
                         ![1] = Append(@, Action([k \in 1..frames |-> NEUTRAL]))]

\* what the defs make of the names n and k
ScopeLayered ==
    (InBlock /\ stmt_i' = stmt_i + 1) =>
        /\ Invokes(CurrentStatement, "wn", <<>>) => Waits(global_vars["n"].int)
        /\ Invokes(CurrentStatement, "wn", <<IntegerLiteral(3)>>) => Waits(3)
        /\ (Invokes(CurrentStatement, "wk", <<>>) /\ "k" \in DOMAIN blk_vars) =>
               Waits(blk_vars["k"].int)
        /\ (Invokes(CurrentStatement, "wk", <<>>) /\ "k" \notin DOMAIN blk_vars) =>
               (mstate' = "CompilerError" /\ blk_vars' = blk_vars /\ ctx_queues' = ctx_queues)
        /\ Invokes(CurrentStatement, "set", <<>>) => Waits(0)
        /\ (CurrentStatement = PlayerAction("P1", << WaitSegment(Identifier("n")) >>)) =>
               Waits(blk_vars["n"].int)

\* C27: inside an invoked def a name is the call's argument if it is a
\* parameter, else the global binding if there is one (whatever the caller
\* has assigned to the name), else the caller's local binding; what the body
\* lets and assigns stays in the def: the caller reads its own values after
\* the call, and a def invoked later reads the global ones.
C27_DefScope == [][ScopeLayered]_vars

\* after `n = 1`, set() and wn(): the waits of the defs' own n and of the
\* global n, and the caller's n as it was
C27_Witness ==
    /\ mstate = "running"
    /\ blk_i = 0
    /\ stmt_i = 3
    /\ match.static_blocks[1].statements =
          << AssignStatement("n", IntegerLiteral(1)), CallStatement("set", <<>>),
             CallStatement("wn", <<>>) >>
    /\ blk_vars = [name \in {"n"} |-> IntV(1)]
    /\ ctx_queues[1] = << Action(<<>>), Action(<<NEUTRAL, NEUTRAL>>) >>

-----------------------------------------------------------------------------
(* Properties of the explicit port of a PlayerAction *)

\* the port named by the explicit PlayerAction that the statement executes,
\* itself or in the body of the def bar it invokes; 0 when it executes none
ExplicitPort(stmt) ==
    LET bar_called(args) == IF Len(args) <= 1 THEN 1 ELSE 0
    IN  CASE stmt.stmt = "PlayerAction" /\ stmt.player = "implicit" -> 0
          [] stmt.stmt = "PlayerAction" /\ stmt.chain[1].name = "bar" ->
                bar_called(stmt.chain[1].args)
          [] stmt.stmt = "PlayerAction" -> PortNumber(stmt.player)
          [] stmt.stmt = "CallStatement" /\ stmt.name = "bar" -> bar_called(stmt.args)
          [] stmt.stmt = "LetStatement" /\ stmt.value.expr = "CallExpr" ->
                bar_called(stmt.value.args)
          [] OTHER -> 0

\* the queue of a port, empty when the port has none
QueueOf(qs, p) == IF p \in DOMAIN qs THEN qs[p] ELSE <<>>

\* C29: the item compiled from a PlayerAction with the explicit port Pk goes
\* to the queue of port k and to no other queue, whether the statement is in
\* the Static block, in a def called as a statement or in an expression, or
\* in a def invoked as a chain segment of a PlayerAction on another port.
C29_ExplicitPorts ==
    [][ (/\ InBlock
         /\ stmt_i' = stmt_i + 1
         /\ mstate' = "running"
         /\ ExplicitPort(CurrentStatement) # 0) =>
            \A p \in 1..4 :
               Len(QueueOf(ctx_queues', p)) =
                  Len(QueueOf(ctx_queues, p)) +
                     (IF p = ExplicitPort(CurrentStatement) THEN 1 ELSE 0) ]_vars

====
